---------------------------- MODULE Spec2Model ----------------------------
(***************************************************************************)
(* sysmon: telemetry broadcast hub, history ring buffer, signed-token      *)
(* authentication and the web-terminal session bridge.                     *)
(*                                                                         *)
(* Sources: src/main.go, src/shell.go, src/monitor/monitor.go.             *)
(* Four components share no state in the program, so each has its own      *)
(* specification (SpecHist, SpecAuth, SpecHub, SpecShell) over the common  *)
(* variables; SpecFeed follows a sample from the ticker through the        *)
(* history buffer and the hub to a viewer; Spec is their interleaving.     *)
(***************************************************************************)
EXTENDS Integers, Sequences, FiniteSets, TLC

VARIABLES
    now,           \* time.Now().Unix(), seconds
    nticks,        \* number of clock advances so far (bounds the run)
    \* ---- monitor.go: history ring buffer ----
    histBuf,       \* var histBuf []HistoryPoint
    histCapacity,  \* var histCapacity int
    histMu,        \* var histMu sync.Mutex: "free" or the holder
    histPanic,     \* a call panicked (slice bounds out of range)
    appended,      \* history: every point RecordHistory appended, in order
    hlast,         \* history: the last call, with the buffer and capacity before it
    hfixed,        \* history: no SetHistoryCapacity call since the first append
    hpc,           \* GetHistory caller: position in the call
    hcp,           \* GetHistory: cp, the copy being filled
    hidx,          \* GetHistory: number of elements copied so far
    hret,          \* GetHistory: the value returned to the caller
    hseen,         \* history: buffer contents that existed during the call
    \* ---- main.go: configuration and signed tokens ----
    cfg,           \* Config: Password, ShellPassword, EnableShell
    issued,        \* history: tokens handed out, with domain, secret, issue time
    authLog,       \* history: the last request handled and its outcome
    \* ---- main.go: connection hub ----
    clients,       \* hub.clients: the set of registered connections
    hubMu,         \* hub.mu: "free" or the goroutine holding it
    wsPc,          \* per connection: position of its /ws handler and read loop
    broken,        \* per connection: the transport has failed (peer gone)
    closed,        \* per connection: conn.Close() has been called
    recv,          \* per connection: the broadcast payloads written to it, in order
    bcTodo,        \* broadcast: connections the range loop has yet to visit
    bcData,        \* broadcast: the payload of the pass in progress
    bcSeq,         \* number of broadcast passes started
    bcStart,       \* history: hub.clients when the pass took the lock
    bcFailed,      \* history: connections whose write failed in the pass
    \* ---- shell.go: one terminal session ----
    sPc,           \* the handler goroutine's position in handleShell
    ptyPc,         \* the PTY -> WebSocket goroutine's position
    rdPc,          \* the WebSocket -> PTY goroutine's position
    rdMsg,         \* the frame the reader goroutine is handling
    closeOnce,     \* sync.Once of cleanup: "fresh", the step it is at, or "done"
    onceBy,        \* the goroutine running the cleanup body
    ptmxOpen,      \* the PTY master is open
    proc,          \* cmd.Process: "none", "running", "exited", "reaped"
    connClosed,    \* the handler's deferred conn.Close() has run
    peerGone,      \* the client went away: transport reads and writes fail
    done,          \* the done channel is closed
    idleArmed,     \* idleTimer is running
    idleC,         \* a value is waiting in idleTimer.C
    sent,          \* frames written to the client, in order
    ptyIn,         \* bytes written to the PTY, in order
    arrived,       \* history: payloads of the binary frames read, in order
    winsize,       \* the PTY window size
    nframes,       \* inbound frames read so far
    nout,          \* PTY output chunks read so far
    ptyCloses,     \* history: calls of ptmx.Close()
    kills,         \* history: calls of cmd.Process.Kill()
    waits,         \* history: calls of cmd.Wait()
    noops,         \* history: cleanup calls that found the Once already done
    triggers,      \* history: termination causes that have occurred
    idleLeft,      \* time left on idleTimer, in ticks
    sinceFrame,    \* history: ticks since the last inbound frame (or the start)
    \* ---- main.go: the snapshot broadcaster and the /ws handler's first messages ----
    tickPc,        \* the snapshot broadcaster's position in its loop body
    snapOf,        \* history: per snapshot pass, the number of the point recorded for it
    hsPc,          \* per connection: the /ws handler's position in its initial messages
    histMsg        \* per connection: the history it fetched, and whether it went out

histVars == <<histBuf, histCapacity, histMu, histPanic, appended, hlast, hfixed,
              hpc, hcp, hidx, hret, hseen>>
clockVars == <<now, nticks>>
authVars == <<cfg, issued, authLog>>
hubVars == <<clients, hubMu, wsPc, broken, closed, recv, bcTodo, bcData, bcSeq,
             bcStart, bcFailed>>
shellVars == <<sPc, ptyPc, rdPc, rdMsg, closeOnce, onceBy, ptmxOpen, proc, connClosed,
               peerGone, done, idleArmed, idleC, sent, ptyIn, winsize, nframes, nout,
               ptyCloses, kills, waits, noops, triggers, idleLeft, sinceFrame, arrived>>
feedVars == <<tickPc, snapOf, hsPc, histMsg>>
vars == <<clockVars, histVars, authVars, hubVars, shellVars, feedVars>>

\* What the actions of one component leave alone.
notHist == <<authVars, hubVars, shellVars, feedVars>>
notAuth == <<histVars, hubVars, shellVars, feedVars>>
notHub == <<clockVars, histVars, authVars, shellVars, feedVars>>
notShell == <<clockVars, histVars, authVars, hubVars, feedVars>>

---------------------------------------------------------------------------
(* Bounds of the model *)

MaxTicks == 1
MaxHistTicks == 1
MaxAppends == 3
MaxCap == 2
MaxTokens == 2
MaxConns == 2
MaxBroadcasts == 2
MaxViewers == 1
MaxFrames == 2
MaxOutput == 1
IdleTicks == 2

HistTimeSteps == {1, 3600}
CpuVals == {10, 20}
MemVals == {50}
CapArgs == (-1) .. MaxCap

---------------------------------------------------------------------------
(* Helpers *)

Min(a, b) == IF a < b THEN a ELSE b

\* The last n elements of s, in order (n <= Len(s)).
LastN(s, n) == SubSeq(s, Len(s) - n + 1, Len(s))

\* Go's s[low:] panics unless 0 <= low <= len(s).
SlicePanics(s, low) == low < 0 \/ low > Len(s)
SliceFrom(s, low) == SubSeq(s, low + 1, Len(s))

---------------------------------------------------------------------------
(* Clock *)

AdvanceTime(maxTicks, steps) ==
    /\ nticks < maxTicks
    /\ \E d \in steps : now' = now + d
    /\ nticks' = nticks + 1

---------------------------------------------------------------------------
(* monitor.go: history ring buffer *)

DefaultHistCapacity == 3600

ZeroPoint == [Timestamp |-> 0, CPUAvg |-> 0, MemPercent |-> 0]

\* histMu.Lock() succeeds only on a free mutex.
HistMuFreeNoLock == TRUE
HistMuFree == histMu = "free"

\* SetHistoryCapacity, lines 153-155: the slice expression's low bound and result.
SetCapKeepOldest(buf, n) == IF Len(buf) > n THEN SubSeq(buf, 1, n) ELSE buf
SetCapTrim(buf, n) ==
    IF Len(buf) > n THEN SliceFrom(buf, Len(buf) - n) ELSE buf

\* RecordHistory, lines 166-169: append, then trim to capacity.
RecordNoTrim(buf, pt, cap) == Append(buf, pt)
RecordKeepOldest(buf, pt, cap) ==
    IF Len(buf) + 1 > cap THEN SubSeq(Append(buf, pt), 1, cap) ELSE Append(buf, pt)
RecordAppendTrim(buf, pt, cap) ==
    LET b == Append(buf, pt)
    IN  IF Len(b) > cap THEN SliceFrom(b, Len(b) - cap) ELSE b

\* Bookkeeping shared by the two writers: remember the call, and what a
\* GetHistory in progress could have seen.
HistNote(op, n, newBuf) ==
    /\ hlast' = [op |-> op, n |-> n, buf |-> histBuf, cap |-> histCapacity]
    /\ hseen' = IF hpc \in {"copy", "ret"} THEN hseen \cup {newBuf} ELSE hseen

SetHistoryCapacity(n) ==
    /\ ~histPanic
    /\ HistMuFree
    /\ histCapacity' = n
    /\ IF Len(histBuf) > n /\ SlicePanics(histBuf, Len(histBuf) - n)
       THEN /\ histPanic' = TRUE
            /\ histBuf' = histBuf
       ELSE /\ histPanic' = FALSE
            /\ histBuf' = SetCapTrim(histBuf, n)
    /\ HistNote("SetHistoryCapacity", n, histBuf')
    /\ hfixed' = (hfixed /\ appended = <<>>)
    /\ UNCHANGED <<histMu, appended, hpc, hcp, hidx, hret, clockVars>>
    /\ UNCHANGED notHist

RecordHistoryCall(cpuAvg, memPct) ==
    /\ ~histPanic
    /\ HistMuFree
    /\ Len(appended) < MaxAppends
    /\ LET pt == [Timestamp |-> now, CPUAvg |-> cpuAvg, MemPercent |-> memPct]
       IN  /\ appended' = Append(appended, pt)
           /\ IF Len(histBuf) + 1 > histCapacity
                 /\ SlicePanics(Append(histBuf, pt), Len(histBuf) + 1 - histCapacity)
              THEN /\ histPanic' = TRUE
                   /\ histBuf' = Append(histBuf, pt)
              ELSE /\ histPanic' = FALSE
                   /\ histBuf' = RecordAppendTrim(histBuf, pt, histCapacity)
    /\ HistNote("RecordHistory", 0, histBuf')
    /\ UNCHANGED <<histCapacity, histMu, hfixed, hpc, hcp, hidx, hret, clockVars>>

\* A call of RecordHistory by itself.
RecordHistory(cpuAvg, memPct) ==
    /\ RecordHistoryCall(cpuAvg, memPct)
    /\ UNCHANGED notHist

\* GetHistory, lines 173-175: lock, cp := make([]HistoryPoint, len(histBuf)).
GetHistoryLock ==
    /\ ~histPanic
    /\ hpc = "idle"
    /\ HistMuFree
    /\ histMu' = "GetHistory"
    /\ hcp' = [i \in 1 .. Len(histBuf) |-> ZeroPoint]
    /\ hidx' = 0
    /\ hseen' = {histBuf}
    /\ hpc' = "copy"
    /\ UNCHANGED <<histBuf, histCapacity, histPanic, appended, hlast, hfixed, hret,
                   clockVars>>
    /\ UNCHANGED notHist

\* GetHistory, line 176: copy(cp, histBuf), one element at a time.
GetHistoryCopy ==
    /\ hpc = "copy"
    /\ IF hidx < Min(Len(hcp), Len(histBuf))
       THEN /\ hcp' = [hcp EXCEPT ![hidx + 1] = histBuf[hidx + 1]]
            /\ hidx' = hidx + 1
            /\ hpc' = hpc
       ELSE /\ hpc' = "ret"
            /\ UNCHANGED <<hcp, hidx>>
    /\ UNCHANGED <<histBuf, histCapacity, histMu, histPanic, appended, hlast, hfixed,
                   hret, hseen, clockVars>>
    /\ UNCHANGED notHist

\* GetHistory, line 177 and the deferred Unlock of line 174.
GetHistoryReturn ==
    /\ hpc = "ret"
    /\ hret' = hcp
    /\ hcp' = <<>>
    /\ hidx' = 0
    /\ histMu' = "free"
    /\ hpc' = "returned"
    /\ UNCHANGED <<histBuf, histCapacity, histPanic, appended, hlast, hfixed, hseen,
                   clockVars>>
    /\ UNCHANGED notHist

\* The caller (the /ws handler, main.go 391-396) is done with the value.
GetHistoryDone ==
    /\ hpc = "returned"
    /\ hpc' = "idle"
    /\ hret' = <<>>
    /\ hseen' = {}
    /\ UNCHANGED <<histBuf, histCapacity, histMu, histPanic, appended, hlast, hfixed,
                   hcp, hidx, clockVars>>
    /\ UNCHANGED notHist

HistInit ==
    /\ histBuf = <<>>
    /\ histCapacity = DefaultHistCapacity
    /\ histMu = "free"
    /\ histPanic = FALSE
    /\ appended = <<>>
    /\ hlast = [op |-> "none", n |-> 0, buf |-> <<>>, cap |-> DefaultHistCapacity]
    /\ hfixed = TRUE
    /\ hpc = "idle"
    /\ hcp = <<>>
    /\ hidx = 0
    /\ hret = <<>>
    /\ hseen = {}

ClockInit == now = 0 /\ nticks = 0

HistNext ==
    \/ \E n \in CapArgs : SetHistoryCapacity(n)
    \/ \E c \in CpuVals, m \in MemVals : RecordHistory(c, m)
    \/ GetHistoryLock
    \/ GetHistoryCopy
    \/ GetHistoryReturn
    \/ GetHistoryDone
    \/ (AdvanceTime(MaxHistTicks, HistTimeSteps) /\ UNCHANGED <<histVars, notHist>>)

---------------------------------------------------------------------------
(* Strings are sequences of one-character strings. *)

DigitChars == <<"0", "1", "2", "3", "4", "5", "6", "7", "8", "9">>
IsDigit(c) == \E d \in 1 .. 10 : DigitChars[d] = c
DigitVal(c) == (CHOOSE d \in 1 .. 10 : DigitChars[d] = c) - 1

\* fmt.Sprintf("%d", n)
RECURSIVE DecDigits(_)
DecDigits(n) ==
    IF n < 10 THEN <<DigitChars[n + 1]>>
    ELSE DecDigits(n \div 10) \o <<DigitChars[(n % 10) + 1]>>
FormatInt(n) == IF n < 0 THEN <<"-">> \o DecDigits(-n) ELSE DecDigits(n)

RECURSIVE DigitsVal(_)
DigitsVal(s) ==
    IF s = <<>> THEN 0
    ELSE DigitsVal(SubSeq(s, 1, Len(s) - 1)) * 10 + DigitVal(s[Len(s)])

\* A parser that stops at the first character that is no digit.
ParseIntPrefix(s) ==
    LET k == IF \E i \in 1 .. Len(s) : ~IsDigit(s[i])
             THEN (CHOOSE i \in 1 .. Len(s) :
                      ~IsDigit(s[i]) /\ \A j \in 1 .. (i - 1) : IsDigit(s[j])) - 1
             ELSE Len(s)
    IN  IF k = 0 THEN [ok |-> FALSE, val |-> 0]
        ELSE [ok |-> TRUE, val |-> DigitsVal(SubSeq(s, 1, k))]

\* strconv.ParseInt(s, 10, 64): optional sign, then one or more digits.
ParseInt(s) ==
    LET signed == s # <<>> /\ s[1] \in {"+", "-"}
        body == IF signed THEN Tail(s) ELSE s
    IN  IF body = <<>> \/ \E i \in 1 .. Len(body) : ~IsDigit(body[i])
        THEN [ok |-> FALSE, val |-> 0]
        ELSE [ok |-> TRUE,
              val |-> IF s[1] = "-" THEN 0 - DigitsVal(body) ELSE DigitsVal(body)]

\* strings.SplitN(s, ":", 2): cut at the first colon, if there is one.
SplitN2(s) ==
    IF \E i \in 1 .. Len(s) : s[i] = ":"
    THEN LET k == CHOOSE i \in 1 .. Len(s) :
                      s[i] = ":" /\ \A j \in 1 .. (i - 1) : s[j] # ":"
         IN  <<SubSeq(s, 1, k - 1), SubSeq(s, k + 1, Len(s))>>
    ELSE <<s>>

---------------------------------------------------------------------------
(* main.go: signed tokens *)

DashboardTTL == 86400
\* A shell token that would live as long as a dashboard token.
ShellTTLOfADay == DashboardTTL
ShellTTL == 3600

\* authSecret: the process key, drawn once at startup.
AuthSecret == "K"

\* hex(HMAC-SHA256(key, payload)) as an ideal MAC: the digest determines the
\* key and the payload, so distinct payloads never collide.
HexMac(key, payload) == <<"h", key, "(">> \o payload \o <<")">>

\* generateToken / validateToken: fmt.Sprintf("%d:%s", expiry, password)
DashPayload(expiry, password) == FormatInt(expiry) \o <<":">> \o password

\* generateShellToken / validateShellToken: fmt.Sprintf("shell:%d:%s", ...)
ShellPayloadNoPrefix(expiry, password) == FormatInt(expiry) \o <<":">> \o password
ShellPayload(expiry, password) ==
    <<"s", "h", "e", "l", "l", ":">> \o FormatInt(expiry) \o <<":">> \o password

\* time.Now().Unix() > expiry
ExpiredNever(t, expiry) == FALSE
Expired(t, expiry) == t > expiry

generateToken(password, t) ==
    LET expiry == t + DashboardTTL
    IN  FormatInt(expiry) \o <<":">> \o HexMac(AuthSecret, DashPayload(expiry, password))

validateToken(token, password, t) ==
    LET parts == SplitN2(token)
    IN  IF Len(parts) # 2 THEN FALSE
        ELSE LET e == ParseInt(parts[1])
             IN  IF ~e.ok THEN FALSE
                 ELSE IF Expired(t, e.val) THEN FALSE
                 ELSE parts[2] = HexMac(AuthSecret, DashPayload(e.val, password))

generateShellToken(shellPassword, t) ==
    LET expiry == t + ShellTTL
    IN  FormatInt(expiry) \o <<":">>
            \o HexMac(AuthSecret, ShellPayload(expiry, shellPassword))

validateShellToken(token, shellPassword, t) ==
    LET parts == SplitN2(token)
    IN  IF Len(parts) # 2 THEN FALSE
        ELSE LET e == ParseInt(parts[1])
             IN  IF ~e.ok THEN FALSE
                 ELSE IF Expired(t, e.val) THEN FALSE
                 ELSE parts[2] = HexMac(AuthSecret, ShellPayload(e.val, shellPassword))

\* A configuration that would enable the shell by its flag alone.
ShellEnabledByFlag == cfg.EnableShell

\* Config.ShellEnabled
ShellEnabled == cfg.EnableShell /\ cfg.ShellPassword # <<>>

\* A check with no opt-out for an empty password.
isAuthenticatedAlways(r, password, t) ==
    IF r.token # <<>> THEN validateToken(r.token, password, t)
    ELSE IF r.hasCookie THEN validateToken(r.cookie, password, t)
    ELSE FALSE

\* A check that takes whichever of the two tokens is valid.
isAuthenticatedEither(r, password, t) ==
    \/ password = <<>>
    \/ (r.token # <<>> /\ validateToken(r.token, password, t))
    \/ (r.hasCookie /\ validateToken(r.cookie, password, t))

\* isAuthenticated(r, password): query token first, then the cookie.
isAuthenticated(r, password, t) ==
    IF password = <<>> THEN TRUE
    ELSE IF r.token # <<>> THEN validateToken(r.token, password, t)
    ELSE IF r.hasCookie THEN validateToken(r.cookie, password, t)
    ELSE FALSE

---------------------------------------------------------------------------
(* Requests *)

Passwords == {<<>>, <<"p">>}
ShellPasswords == {<<>>, <<"p">>, <<"q">>}

\* Token strings a client can send: none, one that was issued (for either
\* domain, possibly expired by now), or one it made up.
MadeUpTokens == {<<"x">>}
TokenChoices == {<<>>} \cup {r.tok : r \in issued} \cup MadeUpTokens

Requests ==
    {[token |-> t, hasCookie |-> c # <<>>, cookie |-> c, shell_token |-> st] :
        t \in TokenChoices, c \in TokenChoices, st \in TokenChoices}

\* /api/shell-auth reads no shell_token parameter.
DashRequests == {r \in Requests : r.shell_token = <<>>}

\* The clock moves onto, or just past, the expiry of a token issued earlier.
AuthTimeSteps == {ShellTTL, ShellTTL + 1, DashboardTTL, DashboardTTL + 1}

NoRequest == [token |-> <<>>, hasCookie |-> FALSE, cookie |-> <<>>, shell_token |-> <<>>]

Issue(domain, secret, tok, ttl) ==
    issued' = issued \cup
        {[tok |-> tok, domain |-> domain, secret |-> secret, at |-> now, exp |-> now + ttl]}

\* POST /login, main.go 344-361
Login(pw) ==
    /\ authLog.status = "none"
    /\ Cardinality(issued) < MaxTokens
    /\ IF pw # cfg.Password
       THEN /\ authLog' = [ep |-> "/login", req |-> NoRequest, status |-> "401"]
            /\ UNCHANGED issued
       ELSE /\ Issue("dashboard", cfg.Password, generateToken(cfg.Password, now),
                     DashboardTTL)
            /\ authLog' = [ep |-> "/login", req |-> NoRequest, status |-> "token"]
    /\ UNCHANGED <<cfg, clockVars, notAuth>>

\* The body of a POST to /api/shell-auth: JSON that decodes into the
\* password field, or something the decoder refuses.
Bodies == {[ok |-> TRUE, password |-> pw] : pw \in ShellPasswords}
              \cup {[ok |-> FALSE, password |-> <<>>]}

\* /api/shell-auth, main.go 421-444 (behind authRequired, 197-205)
ShellAuth(r, method, body) ==
    /\ authLog.status = "none"
    /\ Cardinality(issued) < MaxTokens
    /\ LET status ==
              IF ~isAuthenticated(r, cfg.Password, now) THEN "302"
              ELSE IF method # "POST" THEN "405"
              ELSE IF ~ShellEnabled THEN "403"
              ELSE IF ~body.ok THEN "400"
              ELSE IF body.password # cfg.ShellPassword THEN "401"
              ELSE "token"
       IN  /\ authLog' = [ep |-> "/api/shell-auth", req |-> r, status |-> status]
           /\ IF status = "token"
              THEN Issue("shell", cfg.ShellPassword,
                         generateShellToken(cfg.ShellPassword, now), ShellTTL)
              ELSE UNCHANGED issued
    /\ UNCHANGED <<cfg, clockVars, notAuth>>

\* http.Error(w, "unauthorized", 401), main.go 375 and shell.go 42: the
\* answer to a request that fails the check, whatever it sent.
RejectionTelling(r) == IF Len(SplitN2(r.token)) # 2 THEN "400" ELSE "401"
Rejection(r) == "401"

\* /ws, main.go 373-383: the check before the upgrade and h.add.
HandleWs(r) ==
    /\ authLog.status = "none"
    /\ LET status ==
              IF ~isAuthenticated(r, cfg.Password, now) THEN Rejection(r) ELSE "upgrade"
       IN  authLog' = [ep |-> "/ws", req |-> r, status |-> status]
    /\ UNCHANGED <<cfg, issued, clockVars, notAuth>>

\* /ws/shell, shell.go 28-67: the checks before the session starts.
\* "upgrade" stands for reaching upgrader.Upgrade (line 46) and, when that
\* succeeds, pty.Start (line 62).
HandleShellAdmission(r) ==
    /\ authLog.status = "none"
    /\ LET status ==
              IF cfg.Password = <<>> THEN "403"
              ELSE IF ~cfg.EnableShell THEN "403"
              ELSE IF ~isAuthenticated(r, cfg.Password, now) THEN Rejection(r)
              ELSE "upgrade"
       IN  authLog' = [ep |-> "/ws/shell", req |-> r, status |-> status]
    /\ UNCHANGED <<cfg, issued, clockVars, notAuth>>

\* The response has gone out; the server takes the next request.
NoLog == [ep |-> "none", req |-> NoRequest, status |-> "none"]
Respond ==
    /\ authLog.status # "none"
    /\ authLog' = NoLog
    /\ UNCHANGED <<cfg, issued, clockVars, notAuth>>

\* defaultConfig, main.go 59-67
DefaultConfig == [Password |-> <<>>, ShellPassword |-> <<>>, EnableShell |-> FALSE]

AuthIdle ==
    /\ cfg = DefaultConfig
    /\ issued = {}
    /\ authLog = NoLog

AuthInit ==
    /\ cfg \in [Password : Passwords, ShellPassword : ShellPasswords, EnableShell : BOOLEAN]
    /\ issued = {}
    /\ authLog = NoLog

AuthNext ==
    \/ \E pw \in Passwords : Login(pw)
    \/ \E r \in DashRequests, m \in {"GET", "POST"}, b \in Bodies :
            ShellAuth(r, m, b)
    \/ \E r \in Requests : HandleShellAdmission(r)
    \/ \E r \in DashRequests : HandleWs(r)
    \/ Respond
    \/ (authLog.status = "none" /\ AdvanceTime(MaxTicks, AuthTimeSteps) /\ UNCHANGED <<authVars, notAuth>>)

---------------------------------------------------------------------------
(* main.go: connection hub *)

Conns == 1 .. MaxConns
Broadcasters == {"snapshot", "docker"}

\* h.mu.Lock() succeeds only on a free mutex.
HubMuNotTaken == TRUE
HubMuFree == hubMu = "free"

\* conn.WriteMessage returns an error on a failed or closed connection.
WriteFails(c) == broken[c] \/ closed[c]

\* The process that holds the hub runs: no broadcaster goroutine has died of
\* a panic.
HubUp == hubMu # "crashed"

\* broadcast, lines 289-292: what a failed write does to the set and the loop.
ClientsKeepFailed(cl, c) == cl
ClientsAfterFailure(cl, c) == cl \ {c}
LoopAbortsOnFailure(todo, c) == {}
LoopAfterFailure(todo, c) == todo \ {c}

\* hub.add, lines 271-275: h.clients[conn] = true on a map keyed by the
\* connection.
HubAddTwiceDrops(cl, c) == IF c \in cl THEN cl \ {c} ELSE cl \cup {c}
HubAdd(cl, c) == cl \cup {c}

\* /ws handler, lines 378-383: upgrade, then h.add(conn).
\* Connections are numbered in the order they are accepted.
WsAccept(c) ==
    /\ wsPc[c] = "none"
    /\ \A d \in Conns : d < c => wsPc[d] # "none"
    /\ HubMuFree
    /\ clients' = HubAdd(clients, c)
    /\ wsPc' = [wsPc EXCEPT ![c] = "init"]
    /\ UNCHANGED <<hubMu, broken, closed, recv, bcTodo, bcData, bcSeq, bcStart, bcFailed>>
    /\ UNCHANGED notHub

\* /ws handler, lines 385-406: the initial snapshot and history messages,
\* written without the lock and with the result ignored; the read loop starts.
WsInitialWrites(c) ==
    /\ wsPc[c] = "init"
    /\ HubUp
    /\ wsPc' = [wsPc EXCEPT ![c] = "reading"]
    /\ UNCHANGED <<clients, hubMu, broken, closed, recv, bcTodo, bcData, bcSeq, bcStart,
                   bcFailed>>
    /\ UNCHANGED notHub

\* The peer goes away or the network fails: reads and writes fail from now on.
ConnBreak(c) ==
    /\ wsPc[c] # "none"
    /\ HubUp
    /\ ~broken[c]
    /\ broken' = [broken EXCEPT ![c] = TRUE]
    /\ UNCHANGED <<clients, hubMu, wsPc, closed, recv, bcTodo, bcData, bcSeq, bcStart,
                   bcFailed>>
    /\ UNCHANGED notHub

\* read loop, lines 400-405: ReadMessage fails, the loop breaks.
WsReadFail(c) ==
    /\ wsPc[c] = "reading"
    /\ HubUp
    /\ broken[c] \/ closed[c]
    /\ wsPc' = [wsPc EXCEPT ![c] = "remove"]
    /\ UNCHANGED <<clients, hubMu, broken, closed, recv, bcTodo, bcData, bcSeq, bcStart,
                   bcFailed>>
    /\ UNCHANGED notHub

\* hub.remove, lines 277-282 (deferred by the read loop, line 399): delete
\* under the lock, then conn.Close().
HubRemove(c) ==
    /\ wsPc[c] = "remove"
    /\ HubMuFree
    /\ clients' = clients \ {c}
    /\ closed' = [closed EXCEPT ![c] = TRUE]
    /\ wsPc' = [wsPc EXCEPT ![c] = "gone"]
    /\ UNCHANGED <<hubMu, broken, recv, bcTodo, bcData, bcSeq, bcStart, bcFailed>>
    /\ UNCHANGED notHub

\* broadcast, lines 285-287: take the lock, start ranging over the map.
BroadcastBeginCall(who) ==
    /\ HubMuFree
    /\ bcSeq < MaxBroadcasts
    /\ hubMu' = who
    /\ bcSeq' = bcSeq + 1
    /\ bcData' = <<who, bcSeq + 1>>
    /\ bcTodo' = clients
    /\ bcStart' = clients
    /\ bcFailed' = {}
    /\ UNCHANGED <<clients, wsPc, broken, closed, recv>>

\* A call of h.broadcast by itself.
BroadcastBegin(who) ==
    /\ BroadcastBeginCall(who)
    /\ UNCHANGED notHub

\* broadcast, lines 287-293: one iteration of the range loop, in any order.
BroadcastWrite(c) ==
    /\ hubMu \in Broadcasters
    /\ c \in bcTodo
    /\ IF WriteFails(c)
       THEN /\ closed' = [closed EXCEPT ![c] = TRUE]
            /\ clients' = ClientsAfterFailure(clients, c)
            /\ bcTodo' = LoopAfterFailure(bcTodo, c)
            /\ bcFailed' = bcFailed \cup {c}
            /\ UNCHANGED recv
       ELSE /\ recv' = [recv EXCEPT ![c] = Append(@, bcData)]
            /\ bcTodo' = bcTodo \ {c}
            /\ UNCHANGED <<closed, clients, bcFailed>>
    /\ UNCHANGED <<hubMu, wsPc, broken, bcData, bcSeq, bcStart>>
    /\ UNCHANGED notHub

\* What two unsynchronised conn.WriteMessage calls on one connection can do
\* besides running one after the other (the websocket package allows one
\* writer at a time and panics when it notices a second): the handler's call
\* panics, the broadcaster's call panics, or both return and what went out
\* is neither message.
HubRaceOutcomes == {"handlerPanics", "broadcasterPanics", "garbled"}
GarbledMessage == <<"garbled", 0>>

\* lines 383-395 and 288: the /ws handler registers the connection and then
\* writes its initial messages without the lock, while a broadcast pass that
\* already sees the connection writes to it. A panic in the handler is
\* recovered by net/http and the handler is over before it started the read
\* loop, so the connection stays registered with nobody reading it; a panic
\* in a broadcaster goroutine ends the process.
HubWriteRace(c, o) ==
    /\ wsPc[c] = "init"
    /\ hubMu \in Broadcasters /\ c \in bcTodo
    /\ ~WriteFails(c)
    /\ CASE o = "handlerPanics" ->
              /\ wsPc' = [wsPc EXCEPT ![c] = "panicked"]
              /\ UNCHANGED <<hubMu, recv, bcTodo>>
         [] o = "broadcasterPanics" ->
              /\ hubMu' = "crashed"
              /\ UNCHANGED <<wsPc, recv, bcTodo>>
         [] OTHER ->
              /\ recv' = [recv EXCEPT ![c] = Append(@, GarbledMessage)]
              /\ bcTodo' = bcTodo \ {c}
              /\ wsPc' = [wsPc EXCEPT ![c] = "reading"]
              /\ UNCHANGED hubMu
    /\ UNCHANGED <<clients, broken, closed, bcData, bcSeq, bcStart, bcFailed>>
    /\ UNCHANGED notHub

\* broadcast, line 286: the loop is over, the deferred Unlock runs.
BroadcastEnd ==
    /\ hubMu \in Broadcasters
    /\ bcTodo = {}
    /\ hubMu' = "free"
    /\ UNCHANGED <<clients, wsPc, broken, closed, recv, bcTodo, bcData, bcSeq, bcStart,
                   bcFailed>>
    /\ UNCHANGED notHub

\* newHub, lines 267-269
HubInit ==
    /\ clients = {}
    /\ hubMu = "free"
    /\ wsPc = [c \in Conns |-> "none"]
    /\ broken = [c \in Conns |-> FALSE]
    /\ closed = [c \in Conns |-> FALSE]
    /\ recv = [c \in Conns |-> <<>>]
    /\ bcTodo = {}
    /\ bcData = <<"none", 0>>
    /\ bcSeq = 0
    /\ bcStart = {}
    /\ bcFailed = {}

HubNext ==
    \/ \E c \in Conns : WsAccept(c)
    \/ \E c \in Conns : WsInitialWrites(c)
    \/ \E c \in Conns : ConnBreak(c)
    \/ \E c \in Conns : WsReadFail(c)
    \/ \E c \in Conns : HubRemove(c)
    \/ \E who \in Broadcasters : BroadcastBegin(who)
    \/ \E c \in Conns : BroadcastWrite(c)
    \/ \E c \in Conns, o \in HubRaceOutcomes : HubWriteRace(c, o)
    \/ BroadcastEnd

---------------------------------------------------------------------------
(* main.go: the telemetry feed, from the ticker to a viewer that joins *)

\* The loop body of the snapshot broadcaster, lines 450-460, in order:
\* collect, RecordHistory, Marshal, h.broadcast.
BroadcastDueAnytime == tickPc \in {"wait", "recorded"}
BroadcastDue == tickPc = "recorded"

\* The broadcaster waits for its ticker: before the first tick, after a
\* snapshot that did not marshal, or when h.broadcast has returned.
TickerWaits == tickPc = "wait" \/ (tickPc = "pass" /\ hubMu \notin {"snapshot", "crashed"})

\* collect, line 450: the snapshot of the n-th tick, told from the others by
\* its CPU figure.
CollectedCpu(n) == 10 * n
CollectedMem == 50

\* lines 450-458: a tick; collect, RecordHistory, json.Marshal (on an error,
\* continue).
TickRecord(marshals) ==
    /\ HubUp
    /\ TickerWaits
    /\ RecordHistoryCall(CollectedCpu(Len(appended) + 1), CollectedMem)
    /\ tickPc' = IF marshals THEN "recorded" ELSE "wait"
    /\ UNCHANGED <<snapOf, hsPc, histMsg>>
    /\ UNCHANGED <<authVars, hubVars, shellVars>>

\* line 459: h.broadcast(data) takes the lock.
TickBroadcast ==
    /\ BroadcastDue
    /\ BroadcastBeginCall("snapshot")
    /\ tickPc' = "pass"
    /\ snapOf' = Append(snapOf, Len(appended))
    /\ UNCHANGED <<hsPc, histMsg>>
    /\ UNCHANGED <<clockVars, histVars, authVars, shellVars>>

\* /ws handler, lines 378-383, for a viewer of the feed.
FeedAccept(c) ==
    /\ c <= MaxViewers
    /\ hsPc[c] = "none"
    /\ WsAccept(c)

NoHistory == [fetched |-> FALSE, pts |-> <<>>, sent |-> FALSE]

\* /ws handler, lines 385-388: collect and write the initial snapshot
\* (the result of the write is ignored). The handler stands at "init" in
\* wsPc for as long as it is at its initial messages.
WsSnapshotWrite(c) ==
    /\ HubUp
    /\ wsPc[c] = "init" /\ hsPc[c] = "none"
    /\ hsPc' = [hsPc EXCEPT ![c] = "getHistory"]
    /\ UNCHANGED <<tickPc, snapOf, histMsg>>
    /\ UNCHANGED <<clockVars, histVars, authVars, hubVars, shellVars>>

\* /ws handler, line 391: monitor.GetHistory(), a copy taken under histMu.
WsGetHistory(c) ==
    /\ HubUp
    /\ wsPc[c] = "init" /\ hsPc[c] = "getHistory"
    /\ HistMuFree
    /\ histMsg' = [histMsg EXCEPT ![c] = [fetched |-> TRUE, pts |-> histBuf, sent |-> FALSE]]
    /\ hsPc' = [hsPc EXCEPT ![c] = "history"]
    /\ UNCHANGED <<tickPc, snapOf>>
    /\ UNCHANGED <<clockVars, histVars, authVars, hubVars, shellVars>>

\* /ws handler, lines 392-406: the history message, written when the history
\* is not empty; then the read loop starts.
WsHistoryWrite(c) ==
    /\ HubUp
    /\ wsPc[c] = "init" /\ hsPc[c] = "history"
    /\ histMsg' = [histMsg EXCEPT ![c].sent = (Len(histMsg[c].pts) > 0 /\ ~WriteFails(c))]
    /\ hsPc' = [hsPc EXCEPT ![c] = "done"]
    /\ wsPc' = [wsPc EXCEPT ![c] = "reading"]
    /\ UNCHANGED <<tickPc, snapOf>>
    /\ UNCHANGED <<clients, hubMu, broken, closed, recv, bcTodo, bcData, bcSeq, bcStart,
                   bcFailed>>
    /\ UNCHANGED <<clockVars, histVars, authVars, shellVars>>

\* The handler is inside one of its two writes.
HandlerWrites(c) ==
    /\ wsPc[c] = "init"
    /\ hsPc[c] = "none" \/ (hsPc[c] = "history" /\ Len(histMsg[c].pts) > 0)

\* lines 388, 395 and 288: one of the handler's initial writes and a write
\* of the pass in progress at the same time on the connection (see
\* HubWriteRace). After a spoiled message both callers go on.
FeedWriteRace(c, o) ==
    /\ HandlerWrites(c)
    /\ hubMu \in Broadcasters /\ c \in bcTodo
    /\ ~WriteFails(c)
    /\ CASE o = "handlerPanics" ->
              /\ wsPc' = [wsPc EXCEPT ![c] = "panicked"]
              /\ UNCHANGED <<hubMu, recv, bcTodo, hsPc>>
         [] o = "broadcasterPanics" ->
              /\ hubMu' = "crashed"
              /\ UNCHANGED <<wsPc, recv, bcTodo, hsPc>>
         [] OTHER ->
              /\ recv' = [recv EXCEPT ![c] = Append(@, GarbledMessage)]
              /\ bcTodo' = bcTodo \ {c}
              /\ hsPc' = [hsPc EXCEPT ![c] = IF @ = "none" THEN "getHistory" ELSE "done"]
              /\ wsPc' = [wsPc EXCEPT ![c] = IF hsPc[c] = "none" THEN @ ELSE "reading"]
              /\ UNCHANGED hubMu
    /\ UNCHANGED <<clients, broken, closed, bcData, bcSeq, bcStart, bcFailed>>
    /\ UNCHANGED <<tickPc, snapOf, histMsg>>
    /\ UNCHANGED <<clockVars, histVars, authVars, shellVars>>

FeedInit ==
    /\ tickPc = "wait"
    /\ snapOf = <<>>
    /\ hsPc = [c \in Conns |-> "none"]
    /\ histMsg = [c \in Conns |-> NoHistory]

\* The feed with viewers that stay: the snapshot broadcaster ticks, viewers
\* join at any moment.
FeedNext ==
    \/ \E ok \in BOOLEAN : TickRecord(ok)
    \/ TickBroadcast
    \/ \E c \in Conns : BroadcastWrite(c)
    \/ BroadcastEnd
    \/ \E c \in Conns : FeedAccept(c)
    \/ \E c \in Conns : WsSnapshotWrite(c)
    \/ \E c \in Conns : WsGetHistory(c)
    \/ \E c \in Conns : WsHistoryWrite(c)
    \/ \E c \in Conns, o \in HubRaceOutcomes : FeedWriteRace(c, o)

---------------------------------------------------------------------------
(* shell.go: one terminal session, from the admitted request on *)

\* Inbound frames: a binary frame carries bytes (two distinct payloads, by
\* number); a text frame carries a body that should be JSON (six, by number).
BinaryFrames == {[kind |-> "binary", body |-> b] : b \in {1, 2}}
TextFrames == {[kind |-> "text", body |-> j] : j \in {1, 2, 3, 4, 5, 6}}
Frames == BinaryFrames \cup TextFrames
NoFrame == [kind |-> "none", body |-> 0]

\* The text bodies, by number: 1 is not JSON at all.
TextBody(j) ==
    CASE j = 1 -> [json |-> FALSE, type |-> "", cols |-> 0, rows |-> 0]
      [] j = 2 -> [json |-> TRUE, type |-> "resize", cols |-> 80, rows |-> 24]
      [] j = 3 -> [json |-> TRUE, type |-> "resize", cols |-> 0, rows |-> 24]
      [] j = 4 -> [json |-> TRUE, type |-> "resize", cols |-> -1, rows |-> 24]
      [] j = 6 -> [json |-> TRUE, type |-> "resize", cols |-> 70000, rows |-> 24]
      [] OTHER -> [json |-> TRUE, type |-> "ping", cols |-> 80, rows |-> 24]

\* A decoder that would cut a number down to 16 bits instead of refusing it.
UnmarshalWrapping(j) ==
    LET b == TextBody(j)
    IN  IF ~b.json THEN [ok |-> FALSE, type |-> "", cols |-> 0, rows |-> 0]
        ELSE [ok |-> TRUE, type |-> b.type, cols |-> b.cols % 65536,
              rows |-> b.rows % 65536]

\* json.Unmarshal(data, &msg) into shellMessage: Cols and Rows are uint16,
\* and a number that does not fit is an error.
Unmarshal(j) ==
    LET b == TextBody(j)
    IN  IF ~b.json \/ b.cols \notin 0 .. 65535 \/ b.rows \notin 0 .. 65535
        THEN [ok |-> FALSE, type |-> "", cols |-> 0, rows |-> 0]
        ELSE [ok |-> TRUE, type |-> b.type, cols |-> b.cols, rows |-> b.rows]

\* conn.WriteMessage / conn.ReadMessage fail on a closed or dead connection.
ConnDead == connClosed \/ peerGone

\* The server process runs: no goroutine has died of a panic nobody recovers.
ProcessUp == sPc # "crashed" /\ HubUp

\* closeOnce.Do runs its argument only for the first caller.
OnceAdmitsAgain == closeOnce \in {"fresh", "done"}
OnceAdmits == closeOnce = "fresh"

\* handleShell, lines 46-51: upgrader.Upgrade, defer conn.Close().
ShellUpgrade(ok) ==
    /\ sPc = "upgrade"
    /\ sPc' = IF ok THEN "spawn" ELSE "closed"
    /\ UNCHANGED <<ptyPc, rdPc, rdMsg, closeOnce, onceBy, ptmxOpen, proc, connClosed,
                   peerGone, done, idleArmed, idleC, sent, ptyIn, arrived, winsize, nframes, nout,
                   ptyCloses, kills, waits, noops, triggers>>
    /\ UNCHANGED <<idleLeft, sinceFrame>>
    /\ UNCHANGED notShell

\* Frames the server writes besides PTY output: the two error control frames.
SpawnErrorFrame == <<"error", 1>>
TimeoutFrame == <<"error", 2>>

\* What the failed pty.Start branch writes to the client, line 65.
SpawnFailureSilent(s) == s
SpawnFailureReported(s) == Append(s, SpawnErrorFrame)

\* handleShell, lines 53-112 and 115: pty.Start; on failure the error frame and
\* return; on success the defers, the idle timer and the two goroutines.
ShellSpawn(ok) ==
    /\ sPc = "spawn"
    /\ IF ok
       THEN /\ sPc' = "select"
            /\ proc' = "running"
            /\ ptmxOpen' = TRUE
            /\ idleArmed' = TRUE
            /\ idleLeft' = IdleTicks
            /\ ptyPc' = "read"
            /\ rdPc' = "read"
            /\ UNCHANGED sent
       ELSE /\ sPc' = "deferClose"
            /\ sent' = IF ConnDead THEN sent ELSE SpawnFailureReported(sent)
            /\ UNCHANGED <<proc, ptmxOpen, idleArmed, idleLeft, ptyPc, rdPc>>
    /\ UNCHANGED <<rdMsg, closeOnce, onceBy, connClosed, peerGone, done, idleC, ptyIn, arrived,
                   winsize, nframes, nout, ptyCloses, kills, waits, noops, triggers,
                   sinceFrame>>
    /\ UNCHANGED notShell

\* The environment: the client goes away.
PeerLeaves ==
    /\ sPc \notin {"upgrade", "closed", "crashed"}
    /\ ~peerGone
    /\ peerGone' = TRUE
    /\ UNCHANGED <<sPc, ptyPc, rdPc, rdMsg, closeOnce, onceBy, ptmxOpen, proc, connClosed,
                   done, idleArmed, idleC, sent, ptyIn, arrived, winsize, nframes, nout,
                   ptyCloses, kills, waits, noops, triggers>>
    /\ UNCHANGED <<idleLeft, sinceFrame>>
    /\ UNCHANGED notShell

\* The environment: the shell process exits on its own.
ProcExits ==
    /\ proc = "running"
    /\ proc' = "exited"
    /\ UNCHANGED <<sPc, ptyPc, rdPc, rdMsg, closeOnce, onceBy, ptmxOpen, connClosed,
                   peerGone, done, idleArmed, idleC, sent, ptyIn, arrived, winsize, nframes, nout,
                   ptyCloses, kills, waits, noops, triggers>>
    /\ UNCHANGED <<idleLeft, sinceFrame>>
    /\ UNCHANGED notShell

\* The timer's time is up: the runtime sends on idleTimer.C. A handler
\* waiting in the select receives the value at once; otherwise the value
\* stays in the channel's buffer.
IdleTimerFires ==
    /\ idleArmed
    /\ idleArmed' = FALSE
    /\ idleLeft' = 0
    /\ IF sPc = "parked"
       THEN sPc' = "idleWoken" /\ UNCHANGED idleC
       ELSE idleC' = TRUE /\ UNCHANGED sPc
    /\ UNCHANGED <<ptyPc, rdPc, rdMsg, closeOnce, onceBy, ptmxOpen, proc, connClosed,
                   peerGone, done, sent, ptyIn, arrived, winsize, nframes, nout, ptyCloses,
                   kills, waits, noops, triggers, sinceFrame>>
    /\ UNCHANGED notShell

\* A close(done) that would wake nobody.
HandlerNotWoken == sPc

\* close(done) wakes a handler waiting in the select on its done case.
HandlerAfterDone == IF sPc = "parked" THEN "deferStop" ELSE sPc

\* PTY -> WebSocket goroutine, lines 101-105: ptmx.Read returns a chunk
\* (or, with no error, nothing), or an error once the PTY is closed or the
\* process is gone; the deferred close(done).
PtyRead ==
    /\ ptyPc = "read"
    /\ \/ /\ ptmxOpen /\ proc = "running"
          /\ \E n \in {0, 1} :
                IF n = 0
                THEN ptyPc' = "empty" /\ UNCHANGED nout
                ELSE /\ nout < MaxOutput
                     /\ nout' = nout + 1
                     /\ ptyPc' = "write"
          /\ UNCHANGED <<done, triggers, sPc>>
       \/ /\ ~ptmxOpen \/ proc # "running"
          /\ ptyPc' = "done"
          /\ done' = TRUE
          /\ sPc' = HandlerAfterDone
          /\ triggers' = triggers \cup {"pty"}
          /\ UNCHANGED nout
    /\ UNCHANGED <<rdPc, rdMsg, closeOnce, onceBy, ptmxOpen, proc, connClosed,
                   peerGone, idleArmed, idleC, sent, ptyIn, arrived, winsize, nframes,
                   ptyCloses, kills, waits, noops, idleLeft, sinceFrame>>
    /\ UNCHANGED notShell

\* line 106: only a chunk that holds something is forwarded.
ForwardsAnyChunk(pc) == TRUE
ForwardsChunk(pc) == pc = "write"

\* An empty binary frame.
EmptyFrame == <<"out", 0>>

\* PTY -> WebSocket goroutine, lines 106-110: forward the chunk as a binary
\* frame; a failed write ends the goroutine.
PtyForward ==
    /\ ptyPc \in {"write", "empty"}
    /\ IF ~ForwardsChunk(ptyPc)
       THEN /\ ptyPc' = "read"
            /\ UNCHANGED <<sent, done, triggers, sPc>>
       ELSE IF ConnDead
       THEN /\ ptyPc' = "done"
            /\ done' = TRUE
            /\ sPc' = HandlerAfterDone
            /\ triggers' = triggers \cup {"write"}
            /\ UNCHANGED sent
       ELSE /\ ptyPc' = "read"
            /\ sent' = Append(sent, IF ptyPc = "empty" THEN EmptyFrame ELSE <<"out", nout>>)
            /\ UNCHANGED <<done, triggers, sPc>>
    /\ UNCHANGED <<rdPc, rdMsg, closeOnce, onceBy, ptmxOpen, proc, connClosed,
                   peerGone, idleArmed, idleC, ptyIn, arrived, winsize, nframes, nout,
                   ptyCloses, kills, waits, noops, idleLeft, sinceFrame>>
    /\ UNCHANGED notShell

\* line 122: resetIdle() is called for every frame, before its type is looked at.
ResetsIdleBinaryOnly(kind) == kind = "binary"
ResetsIdle(kind) == TRUE

\* WebSocket -> PTY goroutine, lines 118-122: conn.ReadMessage returns a frame,
\* or an error, after which the goroutine returns into its deferred cleanup.
ReaderRead ==
    /\ rdPc = "read"
    /\ \/ /\ ~ConnDead
          /\ nframes < MaxFrames
          /\ \E f \in Frames :
                /\ rdMsg' = f
                /\ rdPc' = IF ResetsIdle(f.kind) THEN "stop" ELSE "apply"
                /\ arrived' = IF f.kind = "binary" THEN Append(arrived, f.body)
                                                   ELSE arrived
          /\ nframes' = nframes + 1
          /\ sinceFrame' = 0
          /\ UNCHANGED triggers
       \/ /\ ConnDead
          /\ rdPc' = "cleanup"
          /\ triggers' = triggers \cup {"transport"}
          /\ UNCHANGED <<rdMsg, nframes, sinceFrame, arrived>>
    /\ UNCHANGED <<sPc, ptyPc, closeOnce, onceBy, ptmxOpen, proc, connClosed, peerGone,
                   done, idleArmed, idleC, sent, ptyIn, winsize, nout, ptyCloses,
                   kills, waits, noops, idleLeft>>
    /\ UNCHANGED notShell

\* resetIdle, line 87: idleTimer.Stop() reports whether it stopped a running timer.
ResetIdleStop ==
    /\ rdPc = "stop"
    /\ rdPc' = IF idleArmed THEN "reset" ELSE "drain"
    /\ idleArmed' = FALSE
    /\ UNCHANGED <<sPc, ptyPc, rdMsg, closeOnce, onceBy, ptmxOpen, proc, connClosed,
                   peerGone, done, idleC, sent, ptyIn, arrived, winsize, nframes, nout,
                   ptyCloses, kills, waits, noops, triggers>>
    /\ UNCHANGED <<idleLeft, sinceFrame>>
    /\ UNCHANGED notShell

\* resetIdle, lines 88-91: take the value out of idleTimer.C if one is there.
ResetIdleDrain ==
    /\ rdPc = "drain"
    /\ rdPc' = "reset"
    /\ idleC' = FALSE
    /\ UNCHANGED <<sPc, ptyPc, rdMsg, closeOnce, onceBy, ptmxOpen, proc, connClosed,
                   peerGone, done, idleArmed, sent, ptyIn, arrived, winsize, nframes, nout,
                   ptyCloses, kills, waits, noops, triggers>>
    /\ UNCHANGED <<idleLeft, sinceFrame>>
    /\ UNCHANGED notShell

\* resetIdle, line 93: idleTimer.Reset(shellIdleTimeout).
ResetIdleReset ==
    /\ rdPc = "reset"
    /\ rdPc' = "apply"
    /\ idleArmed' = TRUE
    /\ idleLeft' = IdleTicks
    /\ UNCHANGED <<sPc, ptyPc, rdMsg, closeOnce, onceBy, ptmxOpen, proc, connClosed,
                   peerGone, done, idleC, sent, ptyIn, arrived, winsize, nframes, nout,
                   ptyCloses, kills, waits, noops, triggers, sinceFrame>>
    /\ UNCHANGED notShell

\* line 127-128: the control messages that are acted on.
ResizeWantedAnySize(msg) == msg.ok /\ msg.type = "resize"
ResizeWanted(msg) == msg.ok /\ msg.type = "resize" /\ msg.cols > 0 /\ msg.rows > 0

\* line 137: ptmx.Write(data) puts the frame's bytes behind those written
\* before.
PtyWriteInFront(in, data) == <<data>> \o in
PtyWrite(in, data) == Append(in, data)

\* lines 129 and 137: pty.Setsize and ptmx.Write act on the PTY only through
\* an open handle; on a closed one they return an error.
PtmxUsableAlways == TRUE
PtmxUsable == ptmxOpen

\* lines 124-138: a text frame is a control message (resize with positive
\* sizes is applied, anything else ignored); a binary frame is written to the
\* PTY. Writes and resizes on a closed PTY fail and the error is ignored; a
\* write to a PTY whose process is gone may fail too.
ReaderApply ==
    /\ rdPc = "apply"
    /\ rdPc' = "read"
    /\ rdMsg' = NoFrame
    /\ IF rdMsg.kind = "text"
       THEN LET msg == Unmarshal(rdMsg.body)
            IN  /\ winsize' = IF ResizeWanted(msg) /\ PtmxUsable
                              THEN [cols |-> msg.cols, rows |-> msg.rows]
                              ELSE winsize
                /\ UNCHANGED ptyIn
       ELSE /\ \E taken \in {TRUE, proc = "running"} :
                   ptyIn' = IF PtmxUsable /\ taken THEN PtyWrite(ptyIn, rdMsg.body)
                                               ELSE ptyIn
            /\ UNCHANGED winsize
    /\ UNCHANGED <<sPc, ptyPc, closeOnce, onceBy, ptmxOpen, proc, connClosed,
                   peerGone, done, idleArmed, idleC, sent, nframes, nout,
                   ptyCloses, kills, waits, noops, triggers>>
    /\ UNCHANGED <<idleLeft, sinceFrame, arrived>>
    /\ UNCHANGED notShell

\* handleShell, lines 143-149: the select. With a case ready it takes one
\* (either, when both are); with none it waits, and is woken by the first of
\* close(done) and the timer.
SelectPoll ==
    /\ sPc = "select"
    /\ LET ready == {c \in {"done", "idle"} : (c = "done" /\ done) \/ (c = "idle" /\ idleC)}
       IN  IF ready = {}
           THEN sPc' = "parked" /\ UNCHANGED idleC
           ELSE \E c \in ready :
                   /\ sPc' = IF c = "done" THEN "deferStop" ELSE "idleWoken"
                   /\ idleC' = IF c = "idle" THEN FALSE ELSE idleC
    /\ UNCHANGED <<ptyPc, rdPc, rdMsg, closeOnce, onceBy, ptmxOpen, proc, connClosed,
                   peerGone, done, idleArmed, sent, ptyIn, arrived, winsize, nframes, nout,
                   ptyCloses, kills, waits, noops, triggers, idleLeft, sinceFrame>>
    /\ UNCHANGED notShell

\* lines 143-150: the select is not in a loop; after the case taken the
\* handler returns into its defers.
HandlerSelectsAgain == "select"
HandlerAfterSelect == "deferStop"

\* What the timeout branch writes to the client, line 148.
TimeoutFrameOmitted(s) == s
TimeoutFrameWritten(s) == Append(s, TimeoutFrame)

\* handleShell, lines 146-148: the timeout branch writes the error frame
\* (a failed write is ignored) and the handler returns.
TimeoutWrite ==
    /\ sPc = "idleWoken"
    /\ sent' = IF ConnDead THEN sent ELSE TimeoutFrameWritten(sent)
    /\ triggers' = triggers \cup {"idle"}
    /\ sPc' = HandlerAfterSelect
    /\ UNCHANGED <<ptyPc, rdPc, rdMsg, closeOnce, onceBy, ptmxOpen, proc, connClosed,
                   peerGone, done, idleArmed, idleC, ptyIn, arrived, winsize, nframes, nout,
                   ptyCloses, kills, waits, noops, idleLeft, sinceFrame>>
    /\ UNCHANGED notShell

\* What two unsynchronised conn.WriteMessage calls on one connection can do
\* besides running one after the other (the websocket package allows one
\* writer at a time and panics when it notices a second): the handler's call
\* panics, the pump's call panics, or both return and what went out is
\* neither frame.
RaceOutcomes == {"handlerPanics", "pumpPanics", "garbled"}
GarbledFrame == <<"garbled", 0>>

\* lines 107 and 148: the handler writes the timeout frame while the PTY
\* pump is writing a chunk; no lock orders the two calls. A panic in the
\* handler is recovered by net/http after the handler's defers have run; a
\* panic in the pump goroutine ends the process, and with it every goroutine,
\* the timer, the PTY handle and the socket.
WriteRace(o) ==
    /\ sPc = "idleWoken" /\ ptyPc = "write"
    /\ ~ConnDead
    /\ triggers' = triggers \cup {"idle"}
    /\ CASE o = "handlerPanics" ->
              /\ sPc' = "deferStop"
              /\ UNCHANGED <<ptyPc, rdPc, sent, idleArmed, ptmxOpen, connClosed>>
         [] o = "pumpPanics" ->
              /\ sPc' = "crashed" /\ ptyPc' = "crashed" /\ rdPc' = "crashed"
              /\ idleArmed' = FALSE
              /\ ptmxOpen' = FALSE
              /\ connClosed' = TRUE
              /\ UNCHANGED sent
         [] OTHER ->
              /\ sPc' = HandlerAfterSelect
              /\ ptyPc' = "read"
              /\ sent' = Append(sent, GarbledFrame)
              /\ UNCHANGED <<rdPc, idleArmed, ptmxOpen, connClosed>>
    /\ UNCHANGED <<rdMsg, closeOnce, onceBy, proc, peerGone, done, idleC, ptyIn, arrived,
                   winsize, nframes, nout, ptyCloses, kills, waits, noops, idleLeft,
                   sinceFrame>>
    /\ UNCHANGED notShell

\* handleShell returns: deferred idleTimer.Stop(), line 84.
DeferStop ==
    /\ sPc = "deferStop"
    /\ idleArmed' = FALSE
    /\ sPc' = "deferCleanup"
    /\ UNCHANGED <<ptyPc, rdPc, rdMsg, closeOnce, onceBy, ptmxOpen, proc, connClosed,
                   peerGone, done, idleC, sent, ptyIn, arrived, winsize, nframes, nout,
                   ptyCloses, kills, waits, noops, triggers>>
    /\ UNCHANGED <<idleLeft, sinceFrame>>
    /\ UNCHANGED notShell

\* Where a goroutine stands when it calls cleanup, and where it goes after.
AtCleanup(who) == IF who = "handler" THEN sPc = "deferCleanup" ELSE rdPc = "cleanup"
AfterCleanup(who) ==
    IF who = "handler"
    THEN sPc' = "deferClose" /\ UNCHANGED rdPc
    ELSE rdPc' = "done" /\ UNCHANGED sPc

\* cleanup, lines 71-72 (deferred at 80 and 116): closeOnce.Do. The first
\* caller enters the body; a caller that finds the Once done returns at once;
\* a caller that finds the body running waits.
CleanupCall(who) ==
    /\ AtCleanup(who)
    /\ onceBy # who
    /\ IF OnceAdmits
       THEN /\ closeOnce' = "close"
            /\ onceBy' = who
            /\ UNCHANGED <<sPc, rdPc, noops>>
       ELSE /\ closeOnce = "done"
            /\ noops' = noops + 1
            /\ AfterCleanup(who)
            /\ UNCHANGED <<closeOnce, onceBy>>
    /\ UNCHANGED <<ptyPc, rdMsg, ptmxOpen, proc, connClosed,
                   peerGone, done, idleArmed, idleC, sent, ptyIn, arrived, winsize, nframes, nout,
                   ptyCloses, kills, waits, triggers>>
    /\ UNCHANGED <<idleLeft, sinceFrame>>
    /\ UNCHANGED notShell

\* cleanup body, line 73: ptmx.Close()
CleanupClosePty ==
    /\ ProcessUp
    /\ closeOnce = "close"
    /\ closeOnce' = "kill"
    /\ ptmxOpen' = FALSE
    /\ ptyCloses' = ptyCloses + 1
    /\ UNCHANGED <<sPc, ptyPc, rdPc, rdMsg, onceBy, proc, connClosed,
                   peerGone, done, idleArmed, idleC, sent, ptyIn, arrived, winsize, nframes, nout,
                   kills, waits, noops, triggers>>
    /\ UNCHANGED <<idleLeft, sinceFrame>>
    /\ UNCHANGED notShell

\* cleanup body, lines 74-75: cmd.Process.Kill() (cmd.Process is set by Start)
CleanupKill ==
    /\ ProcessUp
    /\ closeOnce = "kill"
    /\ closeOnce' = "wait"
    /\ proc' = IF proc = "running" THEN "exited" ELSE proc
    /\ kills' = kills + 1
    /\ UNCHANGED <<sPc, ptyPc, rdPc, rdMsg, onceBy, ptmxOpen, connClosed,
                   peerGone, done, idleArmed, idleC, sent, ptyIn, arrived, winsize, nframes, nout,
                   ptyCloses, waits, noops, triggers>>
    /\ UNCHANGED <<idleLeft, sinceFrame>>
    /\ UNCHANGED notShell

\* cleanup body, line 76: cmd.Wait() reaps the child; the Once is done and
\* the caller goes on.
CleanupWait ==
    /\ ProcessUp
    /\ closeOnce = "wait"
    /\ proc = "exited"
    /\ closeOnce' = "done"
    /\ proc' = "reaped"
    /\ waits' = waits + 1
    /\ onceBy' = "none"
    /\ AfterCleanup(onceBy)
    /\ UNCHANGED <<ptyPc, rdMsg, ptmxOpen, connClosed,
                   peerGone, done, idleArmed, idleC, sent, ptyIn, arrived, winsize, nframes, nout,
                   ptyCloses, kills, noops, triggers>>
    /\ UNCHANGED <<idleLeft, sinceFrame>>
    /\ UNCHANGED notShell

\* What the handler's last deferred call leaves of the connection: closed.
DeferredConnCloseMissing == connClosed
DeferredConnClose == TRUE

\* handleShell returns: deferred conn.Close(), line 51.
DeferClose ==
    /\ sPc = "deferClose"
    /\ connClosed' = DeferredConnClose
    /\ sPc' = "closed"
    /\ UNCHANGED <<ptyPc, rdPc, rdMsg, closeOnce, onceBy, ptmxOpen, proc,
                   peerGone, done, idleArmed, idleC, sent, ptyIn, arrived, winsize, nframes, nout,
                   ptyCloses, kills, waits, noops, triggers>>
    /\ UNCHANGED <<idleLeft, sinceFrame>>
    /\ UNCHANGED notShell

ShellInit ==
    /\ sPc = "upgrade"
    /\ ptyPc = "none"
    /\ rdPc = "none"
    /\ rdMsg = NoFrame
    /\ closeOnce = "fresh"
    /\ onceBy = "none"
    /\ ptmxOpen = FALSE
    /\ proc = "none"
    /\ connClosed = FALSE
    /\ peerGone = FALSE
    /\ done = FALSE
    /\ idleArmed = FALSE
    /\ idleC = FALSE
    /\ sent = <<>>
    /\ ptyIn = <<>>
    /\ arrived = <<>>
    /\ winsize = [cols |-> 0, rows |-> 0]
    /\ nframes = 0
    /\ nout = 0
    /\ ptyCloses = 0
    /\ kills = 0
    /\ waits = 0
    /\ noops = 0
    /\ triggers = {}
    /\ idleLeft = 0
    /\ sinceFrame = 0

\* No goroutine of the session can take a step: the handler waits in the
\* select, the pumps wait in their reads, nobody is inside cleanup.
Quiescent ==
    /\ sPc = "parked"
    /\ ptyPc = "read" /\ ptmxOpen /\ proc = "running"
    /\ rdPc = "read" /\ ~ConnDead
    /\ closeOnce = "fresh"

\* One tick of time passes. The goroutines' steps take no time against the
\* idle threshold, so time passes only while all of them wait, and a timer
\* that is due fires before more time passes.
QuietTick ==
    /\ Quiescent
    /\ ~(idleArmed /\ idleLeft = 0)
    /\ idleLeft' = IF idleArmed THEN idleLeft - 1 ELSE idleLeft
    /\ sinceFrame' = Min(sinceFrame + 1, IdleTicks)
    /\ UNCHANGED <<sPc, ptyPc, rdPc, rdMsg, closeOnce, onceBy, ptmxOpen, proc, connClosed,
                   peerGone, done, idleArmed, idleC, sent, ptyIn, arrived, winsize, nframes, nout,
                   ptyCloses, kills, waits, noops, triggers>>
    /\ UNCHANGED notShell

\* The timer fires when its time has run out.
TimerDue == idleLeft = 0 /\ IdleTimerFires

ShellCore ==
    \/ \E ok \in BOOLEAN : ShellUpgrade(ok)
    \/ \E ok \in BOOLEAN : ShellSpawn(ok)
    \/ PeerLeaves
    \/ ProcExits
    \/ PtyRead
    \/ PtyForward
    \/ ReaderRead
    \/ ResetIdleStop
    \/ ResetIdleDrain
    \/ ResetIdleReset
    \/ ReaderApply
    \/ SelectPoll
    \/ TimeoutWrite
    \/ \E o \in RaceOutcomes : WriteRace(o)
    \/ DeferStop
    \/ \E who \in {"handler", "reader"} : CleanupCall(who)
    \/ CleanupClosePty
    \/ CleanupKill
    \/ CleanupWait
    \/ DeferClose

\* Without a clock: the idle threshold may run out at any moment.
ShellNext == ShellCore \/ IdleTimerFires

\* With a clock.
ShellTimedNext == ShellCore \/ TimerDue \/ QuietTick

---------------------------------------------------------------------------
(* Specifications *)

Init == ClockInit /\ HistInit /\ AuthInit /\ HubInit /\ ShellInit /\ FeedInit
Next ==
    ProcessUp /\ (HistNext \/ AuthNext \/ HubNext \/ FeedNext \/ ShellNext \/ ShellTimedNext)
Spec == Init /\ [][Next]_vars

\* The history buffer alone, under the default configuration.
InitHist == ClockInit /\ HistInit /\ AuthIdle /\ HubInit /\ ShellInit /\ FeedInit
SpecHist == InitHist /\ [][HistNext]_vars

\* Token issue and the authenticated endpoints alone, for every configuration.
InitAuth == ClockInit /\ HistInit /\ AuthInit /\ HubInit /\ ShellInit /\ FeedInit
SpecAuth == InitAuth /\ [][AuthNext]_vars

\* The hub alone: connections come, break and go while broadcasts run.
InitHub == ClockInit /\ HistInit /\ AuthIdle /\ HubInit /\ ShellInit /\ FeedInit
SpecHub == InitHub /\ [][HubNext]_vars

\* The telemetry feed alone.
InitFeed == ClockInit /\ HistInit /\ AuthIdle /\ HubInit /\ ShellInit /\ FeedInit
SpecFeed == InitFeed /\ [][FeedNext]_vars

\* One terminal session alone, from the admitted request to the end.
InitShell == ClockInit /\ HistInit /\ AuthIdle /\ HubInit /\ ShellInit /\ FeedInit
SpecShell == InitShell /\ [][ShellNext]_vars

\* The steps of each goroutine of a session that need nothing from outside:
\* the Go scheduler runs a runnable goroutine eventually. A read is such a
\* step only once it must fail (PTY closed or process gone; connection dead).
CleanupBody == CleanupClosePty \/ CleanupKill \/ CleanupWait
HandlerStep ==
    \/ SelectPoll \/ TimeoutWrite \/ DeferStop \/ DeferClose
    \/ CleanupCall("handler")
    \/ (onceBy = "handler" /\ CleanupBody)
PtyPumpStep ==
    \/ ((~ptmxOpen \/ proc # "running") /\ PtyRead)
    \/ PtyForward
ReaderStep ==
    \/ (ConnDead /\ ReaderRead)
    \/ ResetIdleStop \/ ResetIdleDrain \/ ResetIdleReset \/ ReaderApply
    \/ CleanupCall("reader")
    \/ (onceBy = "reader" /\ CleanupBody)
ShellFairness ==
    /\ WF_vars(HandlerStep)
    /\ WF_vars(PtyPumpStep)
    /\ WF_vars(ReaderStep)

\* A session whose goroutines are scheduled fairly; the client, the shell
\* process and the timer are free to do nothing.
SpecShellLive == InitShell /\ [][ShellNext]_vars /\ ShellFairness

\* The same with a clock; the runtime fires a timer that is due.
SpecShellTimed ==
    InitShell /\ [][ShellTimedNext]_vars /\ ShellFairness /\ WF_vars(TimerDue)

---------------------------------------------------------------------------
(* History buffer: properties *)

\* The buffer is always a suffix of what was appended (sanity).
HistSuffix ==
    ~histPanic => /\ Len(histBuf) <= Len(appended)
                  /\ histBuf = LastN(appended, Len(histBuf))

\* C6: with the capacity fixed since before the first append, the buffer holds
\* exactly the most recent min(capacity, totalAppended) points, in insertion order.
C6_AppendKeepsMostRecent ==
    (~histPanic /\ hfixed) =>
        histBuf = LastN(appended, Min(histCapacity, Len(appended)))

\* An append at a full buffer evicted the oldest point and kept two newer ones.
C6_Witness ==
    /\ hfixed /\ ~histPanic
    /\ hlast.op = "RecordHistory"
    /\ histCapacity >= 2
    /\ Len(hlast.buf) = histCapacity
    /\ Len(appended) > histCapacity

\* C7: in every state of the running program the buffer is no longer than the
\* configured capacity, whatever SetHistoryCapacity and RecordHistory calls came before.
C7_LengthWithinCapacity ==
    ~histPanic => Len(histBuf) <= histCapacity

\* Capacity was changed after appends began, and a later append hit the bound.
C7_Witness ==
    /\ ~hfixed /\ ~histPanic
    /\ hlast.op = "RecordHistory"
    /\ Len(hlast.buf) = histCapacity
    /\ Len(histBuf) = histCapacity
    /\ histCapacity >= 1

\* C8: SetHistoryCapacity(n) with 0 <= n < old capacity on a buffer holding
\* more than n points leaves exactly the most recent n points, in their order.
C8_ShrinkKeepsMostRecent ==
    ( /\ hlast.op = "SetHistoryCapacity"
      /\ hlast.n >= 0
      /\ hlast.n < hlast.cap
      /\ Len(hlast.buf) > hlast.n ) =>
        /\ ~histPanic
        /\ histCapacity = hlast.n
        /\ histBuf = LastN(hlast.buf, hlast.n)

\* A shrink from capacity 2 to 1 on a buffer of two distinct points.
C8_Witness ==
    /\ hlast.op = "SetHistoryCapacity"
    /\ hlast.n = 1
    /\ hlast.cap = 2
    /\ Len(hlast.buf) = 2
    /\ hlast.buf[1] # hlast.buf[2]

\* C9: SetHistoryCapacity(n) with n <= 0 is a no-op: capacity and contents
\* stay as they were and the call does not fail.
C9_NonPositiveCapacityIsNoOp ==
    (hlast.op = "SetHistoryCapacity" /\ hlast.n <= 0) =>
        /\ ~histPanic
        /\ histCapacity = hlast.cap
        /\ histBuf = hlast.buf

\* C10: the value GetHistory returned is the buffer content of one single
\* instant of the call, and stays so whatever is appended or trimmed later.
C10_SnapshotIsAtomicCopy ==
    hpc = "returned" => hret \in hseen

\* A returned snapshot of two points that the buffer has since moved away from.
C10_Witness ==
    /\ hpc = "returned"
    /\ Len(hret) >= 2
    /\ hret # histBuf
    /\ hlast.op \in {"RecordHistory", "SetHistoryCapacity"}

---------------------------------------------------------------------------
(* Tokens and the shell endpoint: properties *)

AllSecrets == Passwords \cup ShellPasswords

\* validate under the token's own domain
ValidIn(domain, tok, secret, t) ==
    IF domain = "shell" THEN validateShellToken(tok, secret, t)
    ELSE validateToken(tok, secret, t)

OtherDomain(domain) == IF domain = "shell" THEN "dashboard" ELSE "shell"

\* The expiry a token string carries.
TokenExpiry(tok) == ParseInt(SplitN2(tok)[1]).val

\* C3: the shell endpoint goes on to upgrade and spawn a terminal only for a
\* request whose shell_token is valid in the shell domain (signed over the
\* shell namespace with the shell password).
C3_TerminalNeedsShellToken ==
    (authLog.ep = "/ws/shell" /\ authLog.status = "upgrade") =>
        validateShellToken(authLog.req.shell_token, cfg.ShellPassword, now)

\* C13: the terminal works only when enableShell is true and shell_password
\* is non-empty: with either false, no request to the shell endpoint gets as
\* far as the upgrade and the spawn.
C13_TerminalNeedsShellEnabled ==
    (authLog.ep = "/ws/shell" /\ authLog.status = "upgrade") => ShellEnabled

\* C14: the shell endpoint answers "forbidden" whenever the shell domain is
\* disabled, whatever the request carries, and "unauthorized" when it is
\* enabled and the request's shell token is absent or invalid; either answer
\* comes before the upgrade, so nothing is upgraded or spawned.
C14_ForbiddenOrUnauthorized ==
    authLog.ep = "/ws/shell" =>
        /\ (~ShellEnabled => authLog.status = "403")
        /\ (ShellEnabled /\ ~validateShellToken(authLog.req.shell_token,
                                                 cfg.ShellPassword, now)
                => authLog.status = "401")

\* What a client can make of a token it holds: the colon dropped, the expiry
\* made no integer, the expiry moved, the signature altered, cut or extended.
Tampered(tok) ==
    LET parts == SplitN2(tok)
        e == parts[1]
        sig == parts[2]
        v == ParseInt(e).val
        colon == <<":">>
    IN  { e \o sig,
          e \o <<"x">> \o colon \o sig,
          <<"x">> \o colon \o sig,
          colon \o sig,
          FormatInt(v + 1) \o colon \o sig,
          FormatInt(v + DashboardTTL) \o colon \o sig,
          FormatInt(v - 1) \o colon \o sig,
          e \o colon \o SubSeq(sig, 1, Len(sig) - 1) \o <<"!">>,
          e \o colon \o SubSeq(sig, 1, Len(sig) - 1),
          e \o colon \o sig \o <<"0">>,
          e \o colon \o sig \o colon \o sig }

\* The payload validate recomputes the signature over, per domain.
PayloadIn(domain, expiry, secret) ==
    IF domain = "shell" THEN ShellPayload(expiry, secret) ELSE DashPayload(expiry, secret)

\* C15: validate accepts a token only if it splits into an integer expiry
\* and a signature, the time is not later than the expiry and the signature
\* is the one recomputed for that expiry, domain and secret; a token with no
\* colon, a non-integer expiry, another expiry than the issued one, or an
\* altered, cut or extended signature is rejected, even while the token it
\* was made from is accepted. Stated for the tokens and the clock as the next
\* request finds them (they do not change while a response is pending).
C15_ValidateAcceptsOnlyExact ==
    authLog.status = "none" =>
    /\ \A r \in issued : \A tok \in Tampered(r.tok) :
          ~ValidIn(r.domain, tok, r.secret, r.at)
    /\ \A tok \in TokenChoices :
          LET parts == SplitN2(tok)
              e == ParseInt(parts[1])
          IN  \A d \in {"dashboard", "shell"} : \A sec \in AllSecrets :
                ValidIn(d, tok, sec, now) =>
                    /\ Len(parts) = 2
                    /\ e.ok
                    /\ now <= e.val
                    /\ parts[2] = HexMac(AuthSecret, PayloadIn(d, e.val, sec))

\* A shell token is still accepted at the very second of its expiry, some
\* time after it was issued: its tampered forms are rejected for what was
\* done to them, not for their age.
C15_Witness ==
    \E r \in issued :
        /\ r.domain = "shell"
        /\ r.at < now /\ now = TokenExpiry(r.tok)
        /\ ValidIn("shell", r.tok, r.secret, now)

\* The token isAuthenticated is to look at: the query parameter if there is
\* one, else the cookie if there is one, else none.
TokenByPrecedence(r) ==
    IF r.token # <<>> THEN r.token ELSE IF r.hasCookie THEN r.cookie ELSE <<>>

\* The endpoint turned the request away for want of authentication.
AuthRejected ==
    \/ authLog.ep \in {"/ws", "/ws/shell"} /\ authLog.status = "401"
    \/ authLog.ep = "/api/shell-auth" /\ authLog.status = "302"

\* The endpoint got as far as its authentication check.
AuthChecked ==
    \/ authLog.ep \in {"/ws", "/api/shell-auth"}
    \/ authLog.ep = "/ws/shell" /\ authLog.status # "403"

\* C16: where the dashboard password is set, an endpoint looks at the query
\* token first and the cookie second: the request passes the check exactly
\* when the token found in that order is valid, and a request with neither
\* is turned away.
C16_QueryThenCookie ==
    (cfg.Password # <<>> /\ AuthChecked) =>
        LET tok == TokenByPrecedence(authLog.req)
        IN  /\ AuthRejected <=> ~validateToken(tok, cfg.Password, now)
            /\ (tok = <<>> => AuthRejected)

\* The query token is bad and the cookie is good: the query token decides,
\* and /ws answers 401.
C16_Witness ==
    /\ authLog.ep = "/ws" /\ authLog.status = "401"
    /\ cfg.Password # <<>>
    /\ authLog.req.token # <<>>
    /\ authLog.req.hasCookie
    /\ validateToken(authLog.req.cookie, cfg.Password, now)

\* The request was let through: the connection goes on to the upgrade, or
\* the shell token is issued.
Accepted == authLog.status \in {"upgrade", "token"}

\* C17 as stated: an empty secret of a domain disables authentication for
\* that domain: every request to its endpoints is accepted, whatever token
\* it carries (dashboard: /ws with an empty password; shell: /ws/shell with
\* the shell enabled and an empty shell_password).
C17_EmptySecretOptOut ==
    /\ (cfg.Password = <<>> /\ authLog.ep = "/ws") => Accepted
    /\ (cfg.ShellPassword = <<>> /\ cfg.EnableShell /\ authLog.ep = "/ws/shell")
            => Accepted

\* C17, amended: an empty dashboard password disables authentication for the
\* dashboard endpoints, whatever token the request carries; the opt-out
\* does not reach the terminal: with an empty dashboard password the shell
\* endpoint answers forbidden, and with an empty shell_password no shell
\* token is ever issued.
C17_DashboardOptOutOnly ==
    /\ (cfg.Password = <<>> /\ authLog.ep = "/ws") => authLog.status = "upgrade"
    /\ (cfg.Password = <<>> /\ authLog.ep = "/api/shell-auth") => authLog.status # "302"
    /\ (cfg.Password = <<>> /\ authLog.ep = "/ws/shell") => authLog.status = "403"
    /\ (cfg.ShellPassword = <<>> /\ authLog.ep = "/api/shell-auth")
            => authLog.status # "token"
    /\ (cfg.ShellPassword = <<>> => \A r \in issued : r.domain # "shell")

\* No dashboard password, and /ws lets through a request that carries a
\* token nobody issued.
C17_Witness ==
    /\ cfg.Password = <<>>
    /\ authLog.ep = "/ws" /\ authLog.status = "upgrade"
    /\ authLog.req.token \in MadeUpTokens

\* C4: a token issued for one domain fails validation under the other domain,
\* for every secret (the identical one included), while it is still unexpired.
C4_CrossDomainRejected ==
    \A r \in issued : \A s \in AllSecrets : \A t \in {r.at, now} :
        ~ValidIn(OtherDomain(r.domain), r.tok, s, t)

\* Both domains configured with the same non-empty secret, one unexpired
\* token of each domain issued.
C4_Witness ==
    /\ cfg.Password = cfg.ShellPassword
    /\ cfg.Password # <<>>
    /\ \E r1 \in issued, r2 \in issued :
          /\ r1.domain = "shell" /\ r2.domain = "dashboard"
          /\ ValidIn("shell", r1.tok, r1.secret, now)
          /\ ValidIn("dashboard", r2.tok, r2.secret, now)

\* C5: a token validates in its own domain with its own secret at the instant
\* of issue, and at no instant later than the expiry it carries.
C5_RoundTripUntilExpiry ==
    \A r \in issued :
        /\ ValidIn(r.domain, r.tok, r.secret, r.at)
        /\ (now > TokenExpiry(r.tok) => ~ValidIn(r.domain, r.tok, r.secret, now))

\* A token of each domain whose expiry instant has passed.
C5_Witness ==
    \E r1 \in issued, r2 \in issued :
        /\ r1.domain = "shell" /\ r2.domain = "dashboard"
        /\ now > TokenExpiry(r1.tok)
        /\ now > TokenExpiry(r2.tok)

---------------------------------------------------------------------------
(* Hub: properties *)

\* The connections the pass in progress has written its payload to.
WrittenInPass ==
    {c \in Conns : \E i \in 1 .. Len(recv[c]) : recv[c][i] = bcData}

\* C2: in a broadcast pass, a connection whose write fails is out of the
\* registered set at once, and when the loop is over every other connection
\* registered at the start of the pass has been written the payload.
C2_HubIsolation ==
    hubMu \in Broadcasters =>
        /\ bcFailed \cap clients = {}
        /\ clients = bcStart \ bcFailed
        /\ WrittenInPass \cap bcFailed = {}
        /\ (bcTodo = {} => WrittenInPass = bcStart \ bcFailed)

\* All connections registered, the write to one of them failed, the loop is over.
C2_Witness ==
    /\ hubMu \in Broadcasters
    /\ bcTodo = {}
    /\ Cardinality(bcStart) = MaxConns
    /\ Cardinality(bcFailed) = 1
    /\ Cardinality(WrittenInPass) = MaxConns - 1

\* One step of the hub seen from outside: during a pass the set only loses
\* the connections the pass itself found failing, and no handler gets
\* through add or remove; a removed connection is never written again.
HubSerialStep ==
    /\ hubMu \in Broadcasters =>
          /\ clients' \subseteq clients
          /\ clients \ clients' \subseteq bcFailed'
          /\ \A c \in Conns :
                /\ (wsPc[c] = "none" => wsPc'[c] = "none")
                /\ (wsPc'[c] = "gone" => wsPc[c] = "gone")
    /\ \A c \in Conns :
          wsPc[c] = "gone" => /\ recv'[c] = recv[c]
                              /\ c \notin clients'
                              /\ c \notin bcTodo'

\* C12: add, remove and broadcast are serialized by one mutex: while a pass
\* is in progress no register or unregister takes effect, and a connection
\* that remove took out of the set before a pass began gets no write from
\* that pass or a later one.
C12_HubSerialized == [][HubSerialStep]_vars

\* A pass is in progress, one connection was removed before it began, and
\* another has left its read loop and waits in remove for the lock.
C12_Witness ==
    /\ hubMu \in Broadcasters
    /\ \E c \in Conns : wsPc[c] = "gone" /\ c \notin bcStart
    /\ \E c \in Conns : wsPc[c] = "remove" /\ c \in clients
    /\ WrittenInPass # {}

---------------------------------------------------------------------------
(* Terminal session: properties *)

\* C1: whatever the order of the three termination triggers, the cleanup
\* body runs at most once: the PTY is closed once, the child killed once and
\* reaped once, and a cleanup call after that changes nothing; a session
\* that spawned a process and has ended has done each exactly once.
C1_CleanupOnce ==
    /\ ptyCloses <= 1 /\ kills <= 1 /\ waits <= 1
    /\ (closeOnce = "done" => ptyCloses = 1 /\ kills = 1 /\ waits = 1)
    /\ (noops > 0 => closeOnce = "done")
    /\ (sPc = "closed" /\ proc # "none" =>
            ptyCloses = 1 /\ kills = 1 /\ waits = 1 /\ proc = "reaped")

\* All three triggers occurred in one session, both goroutines that call
\* cleanup have called it, and everything was released once.
C1_Witness ==
    /\ triggers = {"pty", "idle", "transport"}
    /\ sPc = "closed" /\ rdPc = "done" /\ ptyPc = "done"
    /\ noops >= 1
    /\ ptyCloses = 1 /\ kills = 1 /\ waits = 1

\* The session is over and everything it held is released.
SessionClosed ==
    /\ sPc = "closed" /\ ptyPc = "done" /\ rdPc = "done"
    /\ ~ptmxOpen /\ proc = "reaped" /\ connClosed

\* C11: once a termination trigger has occurred in an active session, the
\* session eventually is closed: PTY closed, child reaped, connection
\* closed, both pump goroutines ended.
C11_TriggerLeadsToClosed == (triggers # {}) ~> SessionClosed

\* A session ended by the transport failing, with everything released.
C11_Witness == SessionClosed /\ triggers = {"transport", "pty"} /\ peerGone

---------------------------------------------------------------------------
(* Terminal session: idle timeout and control frames *)

\* The timeout frame has been written to the client.
TimeoutFrameSent == \E i \in 1 .. Len(sent) : sent[i] = TimeoutFrame

\* C18: when an active session has had no inbound frame for the idle
\* threshold, the timer is due and fires (unless the client or the process
\* ends the session at that very moment); once it has fired, the timeout
\* error frame is written to the client (if it is still there) and the
\* session is terminated.
C18_IdleTimeoutTerminates ==
    /\ []((Quiescent /\ sinceFrame = IdleTicks) => (idleArmed /\ idleLeft = 0))
    /\ (Quiescent /\ sinceFrame = IdleTicks)
          ~> (sPc = "idleWoken" \/ sinceFrame = 0 \/ peerGone \/ proc # "running")
    /\ (sPc = "idleWoken")
          ~> (SessionClosed /\ "idle" \in triggers /\ (TimeoutFrameSent \/ peerGone))

\* A session that never got a frame was ended by the timeout, exactly when
\* the threshold had passed, and the client was told.
C18_Witness ==
    /\ SessionClosed
    /\ "idle" \in triggers
    /\ TimeoutFrameSent
    /\ nframes = 0 /\ sinceFrame = IdleTicks

\* C19: every inbound frame, of either kind and whether or not it is acted
\* on, resets the idle deadline: when the reader has dealt with a frame in an
\* active session the timer runs with the full threshold ahead; while the
\* session waits, the time left on the timer is the threshold less the time
\* since the last frame; and the handler is woken by the timeout only when a
\* full threshold has passed since the last frame (or a frame came in at
\* the very moment the threshold ran out, and the reader has not yet got
\* to the timer).
C19_EveryFrameResetsIdle ==
    [][ /\ (rdPc = "apply" /\ rdPc' = "read" /\ sPc = "parked")
            => (idleArmed' /\ idleLeft' = IdleTicks /\ sinceFrame' = 0)
        /\ Quiescent => (idleArmed /\ idleLeft = IdleTicks - sinceFrame)
        /\ (sPc # "idleWoken" /\ sPc' = "idleWoken")
            => (sinceFrame = IdleTicks \/ rdPc = "stop")
      ]_vars

\* The frames so far were all ignored text frames, time has passed since
\* the last one, and the session is active with the rest of a full
\* threshold left on the timer.
C19_Witness ==
    /\ Quiescent
    /\ sinceFrame >= 1
    /\ nframes = MaxFrames /\ ptyIn = <<>> /\ winsize = [cols |-> 0, rows |-> 0]
    /\ idleArmed /\ idleLeft > 0

\* The text bodies that ask for nothing: not JSON, a resize with a zero or
\* a negative size, an unknown type.
IgnoredBodies == {1, 3, 4, 5}
HoldsIgnoredText == rdMsg.kind = "text" /\ rdMsg.body \in IgnoredBodies

\* C20: a text frame that is malformed JSON, of an unknown type, or a resize
\* with a zero or negative size never terminates the session: the reader
\* goes back to reading, and the handler, the PTY pump, the PTY, the process,
\* the connection and the window size are as they were after the reader's
\* step on it.
C20_BadControlIgnored ==
    [][ HoldsIgnoredText =>
          /\ rdPc' # "cleanup"
          /\ (rdPc = "apply" /\ rdPc' # "apply" /\ ProcessUp') =>
                /\ rdPc' = "read"
                /\ UNCHANGED <<sPc, ptyPc, closeOnce, ptmxOpen, proc, connClosed, done,
                               triggers, winsize, ptyIn, sent>>
      ]_vars

\* After an ignored text frame the session is active and relaying: a
\* binary frame that came next is about to be written to the open PTY.
C20_Witness ==
    /\ rdPc = "apply" /\ rdMsg.kind = "binary"
    /\ nframes = 2 /\ ptyIn = <<>> /\ winsize = [cols |-> 0, rows |-> 0]
    /\ sPc = "parked" /\ ptyPc = "read" /\ ptmxOpen /\ ~ConnDead
    /\ \E i \in 1 .. Len(sent) : sent[i][1] = "out"

---------------------------------------------------------------------------
(* Terminal session: spawn failure, containment, relaying *)

\* pty.Start failed: the handler is in its only defer (conn.Close) or past
\* it, and there never was a process.
SpawnFailed ==
    /\ proc = "none"
    /\ sPc = "deferClose" \/ (sPc = "closed" /\ connClosed)

\* How many frames of the kind the server has written.
RECURSIVE CountFrames(_, _)
CountFrames(s, f) ==
    IF s = <<>> THEN 0
    ELSE (IF Head(s) = f THEN 1 ELSE 0) + CountFrames(Tail(s), f)

\* C21: when spawning the terminal process fails, the error control frame is
\* written once and nothing else is (the write is lost only if the client
\* has gone), no pump goroutine and no idle timer is started, nothing is
\* there to clean up, the spawn is not tried again, and the handler, which
\* nothing can hold up, closes the connection with its next step and ends.
C21_SpawnFailureEndsSession ==
    /\ [](SpawnFailed =>
            /\ CountFrames(sent, SpawnErrorFrame) <= 1
            /\ (~peerGone => sent = <<SpawnErrorFrame>>)
            /\ Len(sent) <= 1
            /\ ptyPc = "none" /\ rdPc = "none"
            /\ ~idleArmed /\ ~idleC /\ ~done
            /\ ~ptmxOpen /\ closeOnce = "fresh"
            /\ ptyCloses = 0 /\ kills = 0 /\ waits = 0
            /\ (sPc # "closed" => ENABLED DeferClose))
    /\ [][SpawnFailed => (SpawnFailed' /\ sPc' # "spawn")]_vars
    /\ [][(SpawnFailed /\ sPc' # sPc) => (sPc' = "closed" /\ connClosed')]_vars

\* A failed spawn was reported to the client, and the session is over.
C21_Witness ==
    /\ SpawnFailed /\ sPc = "closed" /\ connClosed
    /\ sent = <<SpawnErrorFrame>>
    /\ ~peerGone
\* A step in which a failure of the session shows: the spawn fails, the
\* handler leaves the timeout branch, the reader's read fails, the pump's
\* write fails.
SessionFailureStep ==
    \/ sPc = "spawn" /\ sPc' # "spawn"
    \/ sPc = "idleWoken" /\ sPc' # "idleWoken"
    \/ rdPc = "read" /\ rdPc' = "cleanup"
    \/ ptyPc = "write" /\ ptyPc' = "done"

\* A step in which a failure of subscriber c shows: a broadcast write to it
\* fails, its read loop's read fails, it is removed.
SubscriberFailureStep(c) ==
    \/ c \in bcFailed' \ bcFailed
    \/ wsPc[c] = "reading" /\ wsPc'[c] = "remove"
    \/ wsPc[c] = "remove" /\ wsPc'[c] = "gone"

\* C22: a failure confined to one subscriber or one session (write failure,
\* read failure, spawn failure, idle timeout) leaves the process running
\* and leaves unchanged the history buffer, the membership of every other
\* connection in the hub's set and the state of everything else: a session's
\* failure changes nothing of the hub and a subscriber's nothing of the
\* session.
C22_FailuresContained ==
    [][ /\ SessionFailureStep =>
              /\ ProcessUp'
              /\ UNCHANGED <<histBuf, histCapacity, clients, recv>>
        /\ \A c \in Conns : SubscriberFailureStep(c) =>
              /\ ProcessUp'
              /\ UNCHANGED <<histBuf, histCapacity>>
              /\ UNCHANGED shellVars
              /\ \A d \in Conns \ {c} : (d \in clients') = (d \in clients)
      ]_vars

---------------------------------------------------------------------------
(* Hub: set semantics *)

\* One step of the hub as far as writes go: a pass starts with the
\* registered set as its list of targets, the list only shrinks, every
\* write of the pass (delivered, failed or spoiled) takes its target off
\* the list and puts one message at most on the connection, and the pass
\* ends only when the list is empty.
FanOutStep ==
    /\ \A c \in Conns :
          (recv'[c] # recv[c] \/ c \in bcFailed' \ bcFailed) =>
              /\ c \in bcTodo /\ c \notin bcTodo'
              /\ Len(recv'[c]) <= Len(recv[c]) + 1
    /\ (hubMu \in Broadcasters /\ hubMu' = hubMu) => bcTodo' \subseteq bcTodo
    /\ (hubMu \notin Broadcasters /\ hubMu' \in Broadcasters) =>
              /\ bcTodo' = clients /\ bcStart' = clients
    /\ (hubMu \in Broadcasters /\ hubMu' = "free") => bcTodo = {}

\* C23: register has set semantics: registering a connection that is
\* registered leaves the live set as it is, and a broadcast pass writes to
\* each registered connection once: its targets are the registered set,
\* each write takes its target off the list, the pass ends when the list is
\* empty, and no connection holds the payload of a pass twice.
C23_RegisterSetSemantics ==
    /\ [](\A c \in Conns :
            /\ c \in clients => HubAdd(clients, c) = clients
            /\ HubAdd(HubAdd(clients, c), c) = HubAdd(clients, c)
            /\ CountFrames(recv[c], bcData) <= 1)
    /\ [][FanOutStep]_vars

\* A pass over all the connections, registered, is over and each holds its
\* payload once.
C23_Witness ==
    /\ hubMu \in Broadcasters /\ bcTodo = {}
    /\ clients = Conns /\ bcStart = Conns
    /\ \A c \in Conns : CountFrames(recv[c], bcData) = 1 /\ HubAdd(clients, c) = clients

\* A step that removes connection c: a broadcast write to it fails (close
\* and delete, lines 289-292), or the remove deferred by its read loop runs
\* (lines 277-282).
RemovalStep(c) ==
    \/ c \in bcFailed' \ bcFailed
    \/ wsPc[c] = "remove" /\ wsPc'[c] = "gone"

\* C24: removal of a subscriber is idempotent: the first of a failed
\* broadcast write and the remove that follows a failed read takes the
\* connection out of the live set, a removal of a connection that is out
\* already leaves the set as it is, no removal takes out another member,
\* and a removed connection never comes back.
C24_RemovalIdempotent ==
    [][\A c \in Conns :
          /\ RemovalStep(c) => (c \notin clients' /\ clients' = clients \ {c})
          /\ (RemovalStep(c) /\ c \notin clients) => clients' = clients
          /\ (c \notin clients /\ wsPc[c] # "none") => c \notin clients'
      ]_vars

\* A connection was removed twice, by the pass that failed to write to it
\* and then by its read loop's remove, and another is still registered.
C24_Witness ==
    \E c \in Conns :
        /\ c \in bcFailed /\ wsPc[c] = "gone"
        /\ clients = Conns \ {c}

---------------------------------------------------------------------------
(* Authentication: uniform rejection, lifetimes *)

\* What is wrong with a token presented for the dashboard domain at time t:
\* it has no "expiry:signature" shape, its expiry has passed, or its
\* signature is not the one for its expiry.
Defect(tok, password, t) ==
    LET parts == SplitN2(tok)
    IN  IF Len(parts) # 2 THEN "malformed"
        ELSE IF ~ParseInt(parts[1]).ok THEN "malformed"
        ELSE IF t > ParseInt(parts[1]).val THEN "expired"
        ELSE IF parts[2] # HexMac(AuthSecret, DashPayload(ParseInt(parts[1]).val, password))
                THEN "missigned"
        ELSE "none"

\* C25: where the dashboard password is set, a request whose token (the
\* one the check looks at) is malformed, expired or mis-signed gets the same
\* answer whichever it is: 401 "unauthorized" from /ws and /ws/shell, the
\* redirect to the login page from the endpoints behind authRequired; and
\* the answer of /ws/shell does not depend on the shell_token sent.
C25_UniformRejection ==
    (cfg.Password # <<>> /\ AuthChecked) =>
        LET d == Defect(TokenByPrecedence(authLog.req), cfg.Password, now)
        IN  /\ d \in {"malformed", "expired", "missigned"} =>
                  authLog.status = (IF authLog.ep = "/api/shell-auth" THEN "302" ELSE "401")
            /\ (d = "none" /\ authLog.ep \in {"/ws", "/ws/shell"}) =>
                  authLog.status = "upgrade"

\* /ws/shell has turned away a request whose query token is well-formed and
\* correctly signed but expired, while tokens of both domains are out.
C25_Witness ==
    /\ authLog.ep = "/ws/shell" /\ authLog.status = "401"
    /\ Defect(authLog.req.token, cfg.Password, now) = "expired"
    /\ \E i \in issued : i.domain = "shell"

\* C26: a dashboard token issued at time t carries the expiry t + 24 hours
\* and a shell token issued at t the expiry t + 1 hour (in seconds), and a
\* token validates neither now, if its expiry is past, nor at the second
\* after its expiry.
C26_TokenLifetimes ==
    \A r \in issued :
        LET e == TokenExpiry(r.tok)
        IN  /\ r.domain = "dashboard" => e = r.at + 24 * 60 * 60
            /\ r.domain = "shell" => e = r.at + 60 * 60
            /\ ~ValidIn(r.domain, r.tok, r.secret, e + 1)
            /\ (now > e => ~ValidIn(r.domain, r.tok, r.secret, now))

\* Two tokens issued at the same instant, an hour and a second ago: the
\* shell token is past its expiry, the dashboard token still validates.
C26_Witness ==
    \E r1 \in issued, r2 \in issued :
        /\ r1.domain = "shell" /\ r2.domain = "dashboard"
        /\ r1.at = r2.at /\ now = r1.at + 60 * 60 + 1
        /\ ~ValidIn("shell", r1.tok, r1.secret, now)
        /\ ValidIn("dashboard", r2.tok, r2.secret, now)

---------------------------------------------------------------------------
(* Terminal session: life cycle, relaying *)

\* Active: the process runs behind its PTY, both pumps run, the handler is
\* at its select and nothing has ended any of them.
SessionActive ==
    /\ sPc \in {"select", "parked"} /\ ~done
    /\ ptyPc \in {"read", "write", "empty"}
    /\ rdPc \notin {"cleanup", "done", "crashed"}

\* Closed: the handler has returned with everything released (or there was
\* never a process to release).
SessionOver == SessionClosed \/ (sPc = "closed" /\ proc = "none")

\* The states of a session in order: 0 before there is a connection,
\* 1 Starting, 2 Active, 3 Closing, 4 Closed.
SessionRank ==
    CASE sPc = "upgrade" -> 0
      [] sPc = "spawn" -> 1
      [] SessionActive -> 2
      [] SessionOver -> 4
      [] OTHER -> 3

\* C27: a session moves only forward along Starting, Active, Closing,
\* Closed, one state at a time except that a failed spawn takes Starting to
\* Closing (and a failed upgrade ends the request before there is a
\* session); it never returns to an earlier state, and in Closed nothing
\* of it changes any more (but a timer the reader re-armed after the
\* handler's Stop may still run out, into a channel nobody reads).
C27_ForwardOnly ==
    [][ /\ SessionRank' >= SessionRank
        /\ \/ SessionRank' \in {SessionRank, SessionRank + 1}
           \/ SessionRank = 1 /\ SessionRank' = 3
           \/ SessionRank = 0 /\ SessionRank' = 4
        /\ SessionRank = 4 =>
              UNCHANGED <<sPc, ptyPc, rdPc, rdMsg, closeOnce, onceBy, ptmxOpen, proc,
                          connClosed, peerGone, done, sent, ptyIn, winsize, nframes,
                          nout, ptyCloses, kills, waits, noops, triggers>>
      ]_vars

\* A session that was active, took frames and output, and was ended by the
\* process exiting is closed, the client still being there.
C27_Witness ==
    /\ SessionClosed /\ triggers = {"pty", "transport"} /\ ~peerGone
    /\ nframes > 0 /\ nout > 0 /\ kills = 1

\* C28: while the session is active and its process runs (and indeed as
\* long as the PTY is open and the process runs) what has been written to
\* the PTY is the payloads of the binary frames read, in the order they
\* came, less the one the reader holds and has yet to write: none altered,
\* dropped, doubled or out of order, and nothing from a text frame. At any
\* time what was written is no longer than what came.
C28_BinaryVerbatim ==
    /\ (ptmxOpen /\ proc = "running") =>
          arrived = (IF rdMsg.kind = "binary" THEN Append(ptyIn, rdMsg.body) ELSE ptyIn)
    /\ SessionActive => ptmxOpen
    /\ Len(ptyIn) <= Len(arrived)

\* An active session has relayed two different binary frames in the order
\* they came and the reader waits for the next.
C28_Witness ==
    /\ SessionActive /\ rdPc = "read" /\ proc = "running"
    /\ arrived = <<2, 1>> /\ ptyIn = <<2, 1>>

\* The frames written to the client other than the two error control
\* frames: what reaches it as terminal output.
IsControlFrame(f) == f \in {SpawnErrorFrame, TimeoutFrame}
IsOutputFrame(f) == ~IsControlFrame(f)
OutFrames == SelectSeq(sent, IsOutputFrame)

\* C29: the output frames sent are the chunks read from the PTY, each as
\* one frame, in read order and none empty: the k-th output frame is the
\* k-th chunk, and there are no more frames than chunks read; a pump that
\* has ended has closed done, which triggers termination.
C29_OutputRelayed ==
    /\ \A i \in 1 .. Len(OutFrames) : OutFrames[i] = <<"out", i>>
    /\ Len(OutFrames) <= nout
    /\ (ptyPc = "done" => (done /\ triggers \cap {"pty", "write"} # {}))

\* The same without the frame spoiled by two writers at once.
OutputRelayedBarRace ==
    (\A i \in 1 .. Len(sent) : sent[i] # GarbledFrame) => C29_OutputRelayed

---------------------------------------------------------------------------
(* Terminal session: window size *)

\* The reader's step that deals with the frame it holds.
ReaderHandles == rdPc = "apply" /\ rdPc' = "read"

\* The frame held is a text frame that parses as a resize command with
\* positive column and row counts.
HoldsResize ==
    /\ rdMsg.kind = "text"
    /\ LET b == TextBody(rdMsg.body)
       IN  b.json /\ b.type = "resize" /\ b.cols > 0 /\ b.rows > 0

\* ... with counts that fit the 16 bits of the message's fields.
HoldsResizeInRange ==
    /\ HoldsResize
    /\ TextBody(rdMsg.body).cols <= 65535 /\ TextBody(rdMsg.body).rows <= 65535

\* The size the frame held asks for.
AskedSize == [cols |-> TextBody(rdMsg.body).cols, rows |-> TextBody(rdMsg.body).rows]

\* C30 as stated: the window size changes only when a text frame parses as
\* a resize command with positive column and row counts, after such a
\* frame (the PTY being open) it is exactly those counts, and every other
\* frame leaves it as it was.
C30_ResizeOnlyPositive ==
    [][ /\ winsize' # winsize => (ReaderHandles /\ HoldsResize /\ winsize' = AskedSize)
        /\ (ReaderHandles /\ HoldsResize /\ ptmxOpen) => winsize' = AskedSize
        /\ (ReaderHandles /\ ~HoldsResize) => winsize' = winsize
      ]_vars

\* C30 as the code has it: the same for counts from 1 to 65535; a resize
\* command with a larger count is refused by the decoder and leaves the
\* window size as it was, like every other frame.
C30_ResizeWithinUint16 ==
    [][ /\ winsize' # winsize =>
              (ReaderHandles /\ HoldsResizeInRange /\ winsize' = AskedSize)
        /\ (ReaderHandles /\ HoldsResizeInRange /\ ptmxOpen) => winsize' = AskedSize
        /\ (ReaderHandles /\ ~HoldsResizeInRange) => winsize' = winsize
      ]_vars

\* The window was resized to 80 by 24, and the reader now holds a resize
\* command for 70000 columns.
C30_Witness ==
    /\ winsize = [cols |-> 80, rows |-> 24]
    /\ rdPc = "apply" /\ rdMsg = [kind |-> "text", body |-> 6]
    /\ ptmxOpen /\ proc = "running"

---------------------------------------------------------------------------
(* Authentication: issuing shell tokens *)

\* The four conditions on a request to the shell-auth endpoint.
ShellTokenDue(r, method, body) ==
    /\ isAuthenticated(r, cfg.Password, now)
    /\ method = "POST"
    /\ cfg.EnableShell /\ cfg.ShellPassword # <<>>
    /\ body.ok /\ body.password = cfg.ShellPassword

\* The shell tokens a step hands out.
NewShellTokens == {i \in issued' \ issued : i.domain = "shell"}

\* C32: the shell-auth endpoint issues a shell token only to a request that
\* is dashboard-authenticated, uses POST, finds the shell enabled and
\* carries the configured shell password; every other request to it, and
\* every request to another endpoint, gets no shell token.
C32_ShellTokenOnlyWhenDue ==
    [][ /\ (authLog.status = "none" /\ authLog'.ep = "/api/shell-auth") =>
              \A m \in {"GET", "POST"}, b \in Bodies :
                 ShellAuth(authLog'.req, m, b) =>
                    IF ShellTokenDue(authLog'.req, m, b)
                    THEN /\ \E i \in issued' :
                               /\ i.domain = "shell" /\ i.at = now
                               /\ i.tok = generateShellToken(cfg.ShellPassword, now)
                               /\ issued' = issued \cup {i}
                         /\ authLog'.status = "token"
                    ELSE /\ issued' = issued
                         /\ authLog'.status \in {"302", "405", "403", "400", "401"}
        /\ NewShellTokens # {} =>
              /\ authLog.status = "none" /\ authLog'.ep = "/api/shell-auth"
              /\ \E b \in Bodies :
                    /\ ShellAuth(authLog'.req, "POST", b)
                    /\ ShellTokenDue(authLog'.req, "POST", b)
      ]_vars

\* A shell token was issued to a request that proved itself with a
\* dashboard token.
C32_Witness ==
    /\ authLog.ep = "/api/shell-auth" /\ authLog.status = "token"
    /\ cfg.Password # <<>>
    /\ \E i \in issued : i.domain = "shell" /\ i.at = now

---------------------------------------------------------------------------
(* One writer per connection *)

\* C33: no two goroutines write to one telemetry connection at the same
\* time: the handler's initial snapshot and history writes never overlap a
\* broadcast write to the connection it has just registered.
C33_TelemetryWritesExclusive ==
    [][\A c \in Conns, o \in HubRaceOutcomes : ~HubWriteRace(c, o)]_vars

\* C34: in a terminal session no two goroutines write to the connection at
\* the same time: the timeout frame is never written while the PTY pump is
\* writing a chunk.
C34_SessionWritesExclusive ==
    [][\A o \in RaceOutcomes : ~WriteRace(o)]_vars

---------------------------------------------------------------------------
(* Terminal session: the PTY after cleanup *)

---------------------------------------------------------------------------
(* Terminal session: the pump's write fails *)

\* The pump's write of an output chunk fails.
PumpWriteFails == ptyPc = "write" /\ ptyPc' = "done"

\* How far the handler is on its way out of handleShell.
HandlerRank ==
    CASE sPc \in {"select", "parked"} -> 0
      [] sPc = "idleWoken" -> 1
      [] sPc = "deferStop" -> 2
      [] sPc = "deferCleanup" -> 3
      [] sPc = "deferClose" -> 4
      [] sPc = "closed" -> 5
      [] OTHER -> -1

\* After a failed write the session ends: PTY closed, child killed and
\* reaped, once each, under fair scheduling of the goroutines.
WriteFailureLeadsToClosed ==
    "write" \in triggers ~> (SessionClosed /\ ptyCloses = 1 /\ kills = 1 /\ waits = 1)

\* C38: a failed write of an output chunk ends the PTY pump (done is
\* closed, the handler leaves its select), and the session then ends
\* through the one cleanup: until the handler has returned, the handler or
\* the reader can take a step, and when it has, the PTY is closed and the
\* child killed and reaped, once each.
C38_WriteFailureEndsSession ==
    /\ [][PumpWriteFails => (ConnDead /\ done' /\ "write" \in triggers' /\ sPc' # "parked"
                                /\ sent' = sent)]_vars
    /\ []("write" \in triggers =>
              /\ ptyPc = "done" /\ done /\ sPc # "parked"
              /\ ptyCloses <= 1 /\ kills <= 1 /\ waits <= 1
              /\ (sPc # "closed" => ENABLED (HandlerStep \/ ReaderStep))
              /\ (sPc = "closed" =>
                     /\ ptyCloses = 1 /\ kills = 1 /\ waits = 1
                     /\ ~ptmxOpen /\ proc = "reaped" /\ connClosed))
    /\ [][("write" \in triggers /\ sPc' # sPc) => HandlerRank' > HandlerRank]_vars

\* The client went away while the shell was printing; the pump's write
\* failed and nothing else but the reader's failing read ended the session.
C38_Witness ==
    /\ triggers = {"write", "transport"}
    /\ SessionClosed /\ peerGone
    /\ ptyCloses = 1 /\ kills = 1 /\ waits = 1
    /\ nout = 1 /\ OutFrames = <<>>

---------------------------------------------------------------------------
(* Hub: passes of the two broadcasters *)

\* The payload at place i of what connection c was written is that of a
\* broadcast call (and not a message spoiled by two writers).
IsPayload(c, i) == recv[c][i] # GarbledMessage

\* C37: passes of the snapshot broadcaster and of the docker broadcaster do
\* not interleave: a pass begins only when none is in progress, every write
\* of a pass carries that pass's payload, and every connection is written
\* the payloads of the calls in the order the calls took the lock, so any
\* two connections written the payloads of two calls were written them in
\* the same order.
C37_PassesDoNotInterleave ==
    /\ [](\A c \in Conns : \A i, j \in 1 .. Len(recv[c]) :
              (i < j /\ IsPayload(c, i) /\ IsPayload(c, j)) => recv[c][i][2] < recv[c][j][2])
    /\ [][ /\ bcSeq' # bcSeq => (hubMu = "free" /\ bcTodo = {} /\ hubMu' \in Broadcasters)
          /\ \A c \in Conns :
                recv'[c] # recv[c] =>
                   /\ hubMu \in Broadcasters /\ bcData' = bcData
                   /\ \E m \in {bcData, GarbledMessage} : recv'[c] = Append(recv[c], m)
        ]_vars

\* Two connections were each written a snapshot pass and then a docker
\* pass.
C37_Witness ==
    /\ Cardinality(clients) >= 2
    /\ \A c \in clients : recv[c] = <<(<<"snapshot", 1>>), (<<"docker", 2>>)>>
    /\ hubMu = "free"

---------------------------------------------------------------------------
(* Telemetry feed: history before fan-out, late joiners *)

\* The numbers of the snapshot passes whose payload connection c holds.
SnapshotsOn(c) ==
    {n \in 1 .. bcSeq : \E i \in 1 .. Len(recv[c]) : recv[c][i] = <<"snapshot", n>>}

\* C31: on every tick the history point of the collected snapshot is
\* appended before the fan-out of that snapshot begins: the n-th snapshot
\* pass begins after the point recorded for it, at least the n-th, is in
\* the buffer's appends, so a subscriber written the n-th snapshot finds at
\* least n appends made.
C31_HistoryBeforeFanOut ==
    /\ [](/\ bcSeq <= Len(appended)
          /\ Len(snapOf) = bcSeq
          /\ \A n \in 1 .. Len(snapOf) : n <= snapOf[n] /\ snapOf[n] <= Len(appended)
          /\ \A c \in Conns : \A n \in SnapshotsOn(c) : Len(appended) >= n)
    /\ [][bcSeq' # bcSeq =>
              /\ appended' = appended
              /\ snapOf'[bcSeq'] = Len(appended)
              /\ appended[Len(appended)].CPUAvg = CollectedCpu(Len(appended))]_vars

\* Every viewer holds the second snapshot, the second pass is over, and the
\* buffer holds the two points recorded before the passes.
C31_Witness ==
    /\ bcSeq = 2 /\ hubMu = "free"
    /\ Len(appended) = 2 /\ Len(histBuf) = 2
    /\ clients # {}
    /\ \A c \in clients : 2 \in SnapshotsOn(c)

\* Connection c was sent the k-th recorded point in its history message.
InHistoryMessage(c, k) ==
    /\ histMsg[c].sent
    /\ \E i \in 1 .. Len(histMsg[c].pts) : histMsg[c].pts[i] = appended[k]

\* Connection c was written the snapshot of the k-th recorded point.
SnapshotDelivered(c, k) ==
    \E n \in SnapshotsOn(c) : snapOf[n] = k

\* The k-th recorded point belongs to a snapshot that was fanned out.
WasFannedOut(k) == \E n \in 1 .. Len(snapOf) : snapOf[n] = k

\* C36: a viewer that joins late misses no sample: once its handler is
\* through its initial messages and the broadcaster has finished the tick
\* it was at, every point recorded so far (fewer than the capacity) whose
\* snapshot was fanned out is in the history message the viewer was sent or
\* was written to the viewer as a snapshot by a broadcast.
C36_LateJoinerMissesNothing ==
    \A c \in Conns :
        (wsPc[c] = "reading" /\ TickerWaits /\ Len(appended) < histCapacity) =>
            \A k \in 1 .. Len(appended) :
                WasFannedOut(k) => (InHistoryMessage(c, k) \/ SnapshotDelivered(c, k))

\* The same for runs in which no two writes met on a connection.
LateJoinerBarRace ==
    (\A c \in Conns : \A i \in 1 .. Len(recv[c]) : recv[c][i] # GarbledMessage)
        => C36_LateJoinerMissesNothing

=============================================================================
